---- MODULE Spec2Model ----
(***************************************************************************)
(* Model of the quick (two-position) IMU calibration engine of PowerFlux:  *)
(* embedded/src/calibration/setupCalibration.{h,cpp}, with the constants   *)
(* of embedded/src/config/config.h.                                        *)
(*                                                                         *)
(* Numbers.  The firmware computes in float.  The model uses fixed-point   *)
(* integers: accelerations in milli-g, angular rates in 1/100 deg/s, the   *)
(* scale factor in 1/1000, times in ms.  A float division by zero (+inf)   *)
(* is the value FloatInf, larger than every finite value of the model.     *)
(* Magnitudes are compared through their squares (sqrt is monotone).       *)
(*                                                                         *)
(* The engine's fields are the variables below.  Every member function is  *)
(* an operator from an engine record to an engine record, so that a        *)
(* handler that calls transitionTo() twice is modelled as two calls.       *)
(*                                                                         *)
(* The full (multi-position) engine of embedded/src/setupCalibration.*     *)
(* is the variable full, a record of its fields; SpecFull is its state     *)
(* machine.                                                                *)
(***************************************************************************)
EXTENDS Integers, Sequences, FiniteSets, TLC

VARIABLES
    calibrationInProgress,  \* bool SetupCalibration::calibrationInProgress
    currentState,           \* CalibrationState currentState
    currentProgress,        \* uint8_t currentProgress
    stateStartTime,         \* uint32_t stateStartTime
    sampleCount,            \* uint32_t sampleCount
    accelSamples,           \* unique_ptr<Vector3D[]>: <<>> is the null pointer
    gyroSamples,            \* unique_ptr<Vector3D[]>: <<>> is the null pointer
    calibData,              \* CalibrationData calibData
    flatAccelMean,          \* Vector3D flatAccelMean
    sideAccelMean,          \* Vector3D sideAccelMean
    stableStartTime,        \* static uint32_t in handleQuickStabilizing
    deviceConnected,        \* global bool deviceConnected (main.cpp)
    now,                    \* millis()
    \* ---- history of the last public operation (observation only) ----
    lastOp,                 \* "none", "start", "process" or "abort"
    repeated,               \* the operation before lastOp was the same operation
    lastResult,             \* Error::Code returned by the last start, "-" otherwise
    notified,               \* ProgressRecords notified during the last operation
    shown,                  \* showCalibrationProgress() arguments of the last operation
    samplesRead,            \* IMU sample pairs read during the last operation
    stored,                 \* samples stored into the buffers during the last operation
    released,               \* sample buffers released during the last operation
    entered,                \* states passed to transitionTo() during the last operation
    \* ---- provenance of the buffer contents (observation only) ----
    fresh,                  \* slot i was written in this phase since its last restart
    staleAveraged,          \* a mean has included a slot that was not fresh
    stillSince,             \* time of the first of the consecutive still readings of
                            \* the current STABILIZING phase, -1 when there is none
    reading,                \* the sample pair read by the last operation, if any
    restarted,              \* a window of the current run was restarted by movement
    nullDeref,              \* a sample buffer was used through a null pointer
    flatGyroWindow,         \* the gyro window the last calculateFlatPosition() averaged
    corrected,              \* arguments and result of the last operation, when it was
                            \* correctSensorData()
    command,                \* the byte written to the calibration characteristic by
                            \* the last operation, when it was a write
    full,                   \* the SetupCalibration object of the full engine
                            \* (embedded/src/setupCalibration.h)
    mainLoop,               \* static lastUpdate of loop() (main.cpp), with what the
                            \* last iteration did and the parity of the number of
                            \* iterations
    threads                 \* where the loop task and the onWrite task stand
                            \* inside an engine operation, and the handler's locals

vars == <<calibrationInProgress, currentState, currentProgress, stateStartTime,
          sampleCount, accelSamples, gyroSamples, calibData, flatAccelMean,
          sideAccelMean, stableStartTime, deviceConnected, now, lastOp, repeated,
          lastResult, notified, shown, samplesRead, stored, released, entered,
          fresh, staleAveraged, stillSince, reading, restarted, nullDeref,
          flatGyroWindow, corrected, command, full, mainLoop, threads>>

(***************************************************************************)
(* Config::Calibration (config.h), in the model's fixed-point units.       *)
(***************************************************************************)
GRAVITY_MAGNITUDE == 1000       \* 1.0 g
MOVEMENT_TOLERANCE == 2000      \* 20.0 deg/s
STILLNESS_THRESHOLD == 510      \* 5.1 deg/s
ROTATION_THRESHOLD == 70        \* degrees
STABLE_DURATION == 1000         \* ms
GYRO_DEADBAND == 5              \* 0.05 deg/s
MIN_SCALE_FACTOR == 500         \* 0.5
MAX_SCALE_FACTOR == 2000        \* 2.0
Milli == 1000                   \* fixed-point resolution of a float scale factor
Cos2RotationThreshold == 117    \* cos(ROTATION_THRESHOLD degrees)^2 * 1000
SETUP_DELAY == 1000             \* delay(1000) in setup(), before the engine exists

(***************************************************************************)
(* Bounds of the model.  QUICK_SAMPLES is 200 in config.h and progress is   *)
(* reported every 10th sample; the window and the reporting interval are   *)
(* scaled down so that every buffer content can be enumerated, the         *)
(* interval below the window so that progress is reported inside a window. *)
(* MaxTicks bounds millis(): SETUP_DELAY + MaxTicks * TickMs at most.      *)
(***************************************************************************)
QUICK_SAMPLES == 2
PROGRESS_INTERVAL == 1
MaxTicks == 2

TickMs == STABLE_DURATION
FloatInf == Milli * Milli * Milli

(***************************************************************************)
(* Vector3D (setupCalibration.h)                                           *)
(***************************************************************************)
Vector3D(x, y, z) == [x |-> x, y |-> y, z |-> z]
ZeroVector == Vector3D(0, 0, 0)
VecAdd(a, b) == Vector3D(a.x + b.x, a.y + b.y, a.z + b.z)
VecSub(a, b) == Vector3D(a.x - b.x, a.y - b.y, a.z - b.z)
\* float division; the fixed-point quotient rounds toward zero
FDiv(a, b) == IF a >= 0 THEN a \div b ELSE -((-a) \div b)
VecDiv(a, s) == Vector3D(FDiv(a.x, s), FDiv(a.y, s), FDiv(a.z, s))
MagnitudeSq(a) == a.x * a.x + a.y * a.y + a.z * a.z
Abs(v) == IF v < 0 THEN -v ELSE v

\* Readings the IMU can deliver: lying flat (gravity on z) and lying on its
\* side (gravity on x).
AccelVals == {Vector3D(0, 0, 1000), Vector3D(1000, 0, 0)}
\* at rest (below STILLNESS_THRESHOLD) and moving (above MOVEMENT_TOLERANCE)
GyroVals == {Vector3D(300, 0, 0), Vector3D(2500, 0, 0)}

States == {"IDLE", "QUICK_STATIC_FLAT", "QUICK_WAITING_ROTATION", "QUICK_STABILIZING",
           "QUICK_STATIC_SIDE", "QUICK_COMPLETE", "FAILED"}

\* new Vector3D[QUICK_SAMPLES]: every element default-constructed to (0,0,0)
NewBuffer == [i \in 1..QUICK_SAMPLES |-> ZeroVector]
NoneFresh == [i \in 1..QUICK_SAMPLES |-> FALSE]
NullBuffer == << >>
NoCommand == -1
NoReading == [accel |-> ZeroVector, gyro |-> ZeroVector, valid |-> FALSE]
NoCorrection == [rawAccel |-> ZeroVector, rawGyro |-> ZeroVector,
                 result |-> [accel |-> ZeroVector, gyro |-> ZeroVector,
                             isValid |-> FALSE],
                 called |-> FALSE]

\* loop() has not run: its statics are 0, nothing was sent
LoopConstructed ==
    [lastUpdate |-> 0, iteration |-> 0, processCalls |-> 0, packets |-> << >>,
     lastSent |-> -1]

\* both tasks are outside the engine
ThreadsConstructed ==
    [loopPc |-> "loop", handler |-> "IDLE", accel |-> ZeroVector,
     gyro |-> ZeroVector, writerPc |-> "idle"]

\* main.cpp creates the engine with the calibration characteristic it has just
\* dereferenced, so the pointer is never null.
pCalibCharacteristic == TRUE

(***************************************************************************)
(* The engine as a record: the fields, millis(), and the observation.      *)
(***************************************************************************)
Engine ==
    [calibrationInProgress |-> calibrationInProgress, currentState |-> currentState,
     currentProgress |-> currentProgress, stateStartTime |-> stateStartTime,
     sampleCount |-> sampleCount, accelSamples |-> accelSamples,
     gyroSamples |-> gyroSamples, calibData |-> calibData,
     flatAccelMean |-> flatAccelMean, sideAccelMean |-> sideAccelMean,
     stableStartTime |-> stableStartTime,
     lastResult |-> lastResult, notified |-> notified, shown |-> shown,
     samplesRead |-> samplesRead, stored |-> stored, released |-> released,
     entered |-> entered, fresh |-> fresh, staleAveraged |-> staleAveraged,
     stillSince |-> stillSince, reading |-> reading, restarted |-> restarted,
     nullDeref |-> nullDeref, flatGyroWindow |-> flatGyroWindow,
     corrected |-> corrected, command |-> command]

\* The engine at the entry of a public operation: nothing observed yet.
Begin ==
    [Engine EXCEPT !.lastResult = "-", !.notified = << >>, !.shown = << >>,
                   !.samplesRead = 0, !.stored = 0, !.released = 0, !.entered = << >>,
                   !.reading = NoReading, !.corrected = NoCorrection,
                   !.command = NoCommand]

\* the engine after an operation, and what it was seen to do
CommitEngine(op, e) ==
    /\ calibrationInProgress' = e.calibrationInProgress
    /\ currentState' = e.currentState
    /\ currentProgress' = e.currentProgress
    /\ stateStartTime' = e.stateStartTime
    /\ sampleCount' = e.sampleCount
    /\ accelSamples' = e.accelSamples
    /\ gyroSamples' = e.gyroSamples
    /\ calibData' = e.calibData
    /\ flatAccelMean' = e.flatAccelMean
    /\ sideAccelMean' = e.sideAccelMean
    /\ stableStartTime' = e.stableStartTime
    /\ lastResult' = e.lastResult
    /\ notified' = e.notified
    /\ shown' = e.shown
    /\ samplesRead' = e.samplesRead
    /\ stored' = e.stored
    /\ released' = e.released
    /\ entered' = e.entered
    /\ fresh' = e.fresh
    /\ staleAveraged' = e.staleAveraged
    /\ stillSince' = e.stillSince
    /\ reading' = e.reading
    /\ restarted' = e.restarted
    /\ nullDeref' = e.nullDeref
    /\ flatGyroWindow' = e.flatGyroWindow
    /\ corrected' = e.corrected
    /\ command' = e.command
    /\ lastOp' = op
    /\ repeated' = (lastOp = op)

Commit(op, e) ==
    /\ CommitEngine(op, e)
    /\ UNCHANGED <<deviceConnected, now, full, mainLoop, threads>>

(***************************************************************************)
(* SetupCalibration's member functions                                     *)
(***************************************************************************)
Notify(e, rec) == [e EXCEPT !.notified = Append(@, rec)]
Show(e, percent) == [e EXCEPT !.shown = Append(@, percent)]

SendStatusToApp(e) ==
    IF ~pCalibCharacteristic
    THEN e
    ELSE Notify(e, [state |-> e.currentState, progress |-> e.currentProgress])

UpdateProgress(e, progress) ==
    LET d == Show(e, progress)
    IN  IF ~pCalibCharacteristic \/ ~deviceConnected
        THEN d
        ELSE Notify(d, [state |-> d.currentState, progress |-> progress])

\* mutant: the sample count is not reset
TransitionTo_KeepsSampleCount(e, newState) ==
    LET t == [e EXCEPT !.currentState = newState,
                       !.stateStartTime = now,
                       !.entered = Append(@, newState),
                       !.fresh = NoneFresh,
                       !.stillSince = -1]
    IN  Show(SendStatusToApp(t), 0)

TransitionTo(e, newState) ==
    LET t == [e EXCEPT !.currentState = newState,
                       !.stateStartTime = now,
                       !.sampleCount = 0,
                       !.entered = Append(@, newState),
                       !.fresh = NoneFresh,
                       !.stillSince = -1]
    IN  Show(SendStatusToApp(t), 0)

\* unique_ptr::reset(p): the old array, if any, is released
ResetBuffer(e, field, p) ==
    [e EXCEPT ![field] = p,
              !.released = IF e[field] # NullBuffer THEN @ + 1 ELSE @]

AllocOutcomes == {"ok", "null", "throw"}
Allocated(outcome) == IF outcome = "ok" THEN NewBuffer ELSE NullBuffer

\* mutant: the run starts although a buffer is null
AllocateAndStart_IgnoresNull(e, a1, a2) ==
    IF a1 = "throw"
    THEN [e EXCEPT !.lastResult = "CALIBRATION_FAILED"]
    ELSE LET e1 == ResetBuffer(e, "accelSamples", Allocated(a1))
         IN  IF a2 = "throw"
             THEN [e1 EXCEPT !.lastResult = "CALIBRATION_FAILED"]
             ELSE LET e2 == ResetBuffer(e1, "gyroSamples", Allocated(a2))
                  IN  [TransitionTo([e2 EXCEPT !.calibrationInProgress = TRUE,
                                               !.calibData.isValid = FALSE,
                                               !.restarted = FALSE],
                                    "QUICK_STATIC_FLAT")
                         EXCEPT !.lastResult = "NONE"]

\* mutant: the earlier result stays valid through the new run
AllocateAndStart_KeepsValid(e, a1, a2) ==
    IF a1 = "throw"
    THEN [e EXCEPT !.lastResult = "CALIBRATION_FAILED"]
    ELSE LET e1 == ResetBuffer(e, "accelSamples", Allocated(a1))
         IN  IF a2 = "throw"
             THEN [e1 EXCEPT !.lastResult = "CALIBRATION_FAILED"]
             ELSE LET e2 == ResetBuffer(e1, "gyroSamples", Allocated(a2))
                  IN  IF e2.accelSamples = NullBuffer \/ e2.gyroSamples = NullBuffer
                      THEN [e2 EXCEPT !.lastResult = "MEMORY_ERROR"]
                      ELSE [TransitionTo([e2 EXCEPT !.calibrationInProgress = TRUE,
                                                    !.restarted = FALSE],
                                         "QUICK_STATIC_FLAT")
                              EXCEPT !.lastResult = "NONE"]

\* the try block of startQuickCalibration
AllocateAndStart(e, a1, a2) ==
    IF a1 = "throw"
    THEN [e EXCEPT !.lastResult = "CALIBRATION_FAILED"]
    ELSE LET e1 == ResetBuffer(e, "accelSamples", Allocated(a1))
         IN  IF a2 = "throw"
             THEN [e1 EXCEPT !.lastResult = "CALIBRATION_FAILED"]
             ELSE LET e2 == ResetBuffer(e1, "gyroSamples", Allocated(a2))
                  IN  IF e2.accelSamples = NullBuffer \/ e2.gyroSamples = NullBuffer
                      THEN [e2 EXCEPT !.lastResult = "MEMORY_ERROR"]
                      ELSE [TransitionTo([e2 EXCEPT !.calibrationInProgress = TRUE,
                                                    !.calibData.isValid = FALSE,
                                                    !.restarted = FALSE],
                                         "QUICK_STATIC_FLAT")
                              EXCEPT !.lastResult = "NONE"]

\* mutant: the "already in progress" check is missing
StartQuickCalibration_NoGuard(e, a1, a2) == AllocateAndStart(e, a1, a2)

StartQuickCalibration(e, a1, a2) ==
    IF e.calibrationInProgress
    THEN [e EXCEPT !.lastResult = "INVALID_STATE"]
    ELSE AllocateAndStart(e, a1, a2)

RECURSIVE SumSamples(_, _)
SumSamples(samples, count) ==
    IF count = 0 THEN ZeroVector
    ELSE VecAdd(SumSamples(samples, count - 1), samples[count])

CalculateMean(samples, count) == VecDiv(SumSamples(samples, count), count)

\* Observation: the slots a mean over the first `count` slots reads.
Averaging(e, count) ==
    [e EXCEPT !.staleAveraged = @ \/ (\E i \in 1..count : ~e.fresh[i])]

CalculateFlatPosition(e) ==
    IF e.accelSamples = NullBuffer \/ e.gyroSamples = NullBuffer
    THEN [e EXCEPT !.nullDeref = TRUE]
    ELSE [Averaging(e, QUICK_SAMPLES)
            EXCEPT !.flatAccelMean = CalculateMean(e.accelSamples, QUICK_SAMPLES),
                   !.calibData.gyroBias = CalculateMean(e.gyroSamples, QUICK_SAMPLES),
                   !.flatGyroWindow = e.gyroSamples]

\* mutant: the quotient is inverted
ScaleOf_Reciprocal(averageMagnitude) ==
    (averageMagnitude * Milli) \div GRAVITY_MAGNITUDE

\* GRAVITY_MAGNITUDE / averageMagnitude
ScaleOf(averageMagnitude) ==
    IF averageMagnitude = 0 THEN FloatInf
    ELSE (GRAVITY_MAGNITUDE * Milli) \div averageMagnitude

\* mutant: only the lower limit is tested
ScaleInvalid_LowerOnly(accelScale) == accelScale < MIN_SCALE_FACTOR

ScaleInvalid(accelScale) ==
    accelScale < MIN_SCALE_FACTOR \/ accelScale > MAX_SCALE_FACTOR

CalculateSidePosition(e) ==
    IF e.accelSamples = NullBuffer
    THEN [e EXCEPT !.nullDeref = TRUE]
    ELSE
    LET side == CalculateMean(e.accelSamples, QUICK_SAMPLES)
        xMagnitude == Abs(side.x)
        zMagnitude == Abs(e.flatAccelMean.z)
        averageMagnitude == (zMagnitude + xMagnitude) \div 2
        scale == ScaleOf(averageMagnitude)
        e1 == [Averaging(e, QUICK_SAMPLES) EXCEPT !.sideAccelMean = side,
                                                  !.calibData.accelScale = scale]
    IN  IF ScaleInvalid(scale)
        THEN TransitionTo(e1, "FAILED")
        ELSE TransitionTo(
               [e1 EXCEPT !.calibData.accelBias =
                              Vector3D(FDiv(e1.flatAccelMean.x * scale, Milli),
                                       FDiv(FDiv((e1.flatAccelMean.y + side.y) * scale, Milli), 2),
                                       FDiv(side.z * scale, Milli)),
                          !.calibData.isValid = TRUE],
               "QUICK_COMPLETE")

MovementDetected(gyro) == MagnitudeSq(gyro) > MOVEMENT_TOLERANCE * MOVEMENT_TOLERANCE

\* accelSamples[sampleCount] = accel; gyroSamples[sampleCount] = gyro; sampleCount++
StoreSample(e, accel, gyro) ==
    IF e.accelSamples = NullBuffer \/ e.gyroSamples = NullBuffer
    THEN [e EXCEPT !.nullDeref = TRUE, !.sampleCount = @ + 1]
    ELSE [e EXCEPT !.accelSamples[e.sampleCount + 1] = accel,
                   !.gyroSamples[e.sampleCount + 1] = gyro,
                   !.fresh[e.sampleCount + 1] = TRUE,
                   !.stored = @ + 1,
                   !.sampleCount = @ + 1]

\* mutant: the window is not restarted, the count is kept
RejectWindow_KeepsCount(e) == [e EXCEPT !.fresh = NoneFresh, !.restarted = TRUE]

\* movement: sampleCount = 0; return
RejectWindow(e) == [e EXCEPT !.sampleCount = 0, !.fresh = NoneFresh, !.restarted = TRUE]

\* M5.Imu.getAccelData / getGyroData
ReadSample(e, accel, gyro) ==
    [e EXCEPT !.samplesRead = @ + 1,
              !.reading = [accel |-> accel, gyro |-> gyro, valid |-> TRUE]]

\* static_cast<uint8_t>(...)
Uint8(v) == v % 256

\* mutant: the flat phase is scaled to the whole range
FlatProgress_FullRange(count) == Uint8((count * 100) \div QUICK_SAMPLES)

FlatProgress(count) == Uint8((count * 50) \div QUICK_SAMPLES)
SideProgress(count) == Uint8(50 + (count * 50) \div QUICK_SAMPLES)

ReportEvery(e, progress) ==
    IF e.sampleCount % PROGRESS_INTERVAL = 0
    THEN UpdateProgress([e EXCEPT !.currentProgress = progress], progress)
    ELSE e

\* mutant: the window is taken to be full one sample early
HandleQuickStaticFlat_OneShort(e, accel, gyro) ==
    IF e.sampleCount < QUICK_SAMPLES - 1
    THEN LET r == ReadSample(e, accel, gyro)
         IN  IF MovementDetected(gyro)
             THEN RejectWindow(r)
             ELSE LET s == StoreSample(r, accel, gyro)
                  IN  ReportEvery(s, FlatProgress(s.sampleCount))
    ELSE TransitionTo(CalculateFlatPosition(e), "QUICK_WAITING_ROTATION")

\* mutant: the phase is left by the call that stores the last sample
HandleQuickStaticFlat_EagerTransition(e, accel, gyro) ==
    IF e.sampleCount < QUICK_SAMPLES
    THEN LET r == ReadSample(e, accel, gyro)
         IN  IF MovementDetected(gyro)
             THEN RejectWindow(r)
             ELSE LET s == ReportEvery(StoreSample(r, accel, gyro),
                                       FlatProgress(r.sampleCount + 1))
                  IN  IF s.sampleCount = QUICK_SAMPLES
                      THEN TransitionTo(CalculateFlatPosition(s), "QUICK_WAITING_ROTATION")
                      ELSE s
    ELSE TransitionTo(CalculateFlatPosition(e), "QUICK_WAITING_ROTATION")

HandleQuickStaticFlat(e, accel, gyro) ==
    IF e.sampleCount < QUICK_SAMPLES
    THEN LET r == ReadSample(e, accel, gyro)
         IN  IF MovementDetected(gyro)
             THEN RejectWindow(r)
             ELSE LET s == StoreSample(r, accel, gyro)
                  IN  ReportEvery(s, FlatProgress(s.sampleCount))
    ELSE TransitionTo(CalculateFlatPosition(e), "QUICK_WAITING_ROTATION")

\* mutant: the comparison with the threshold is inverted
RotationRecognized_Inverted(accel) ==
    LET m2 == MagnitudeSq(accel)
    IN  m2 > 0 /\ accel.z > 0 /\ accel.z * accel.z * Milli > Cos2RotationThreshold * m2

\* acos(accel.z / |accel|) * 180 / pi > ROTATION_THRESHOLD.  acos decreases, so
\* this is z/|accel| < cos(threshold); 0/0 is NaN and compares false.
RotationRecognized(accel) ==
    LET m2 == MagnitudeSq(accel)
    IN  /\ m2 > 0
        /\ \/ accel.z <= 0
           \/ accel.z * accel.z * Milli < Cos2RotationThreshold * m2

\* mutant: the stabilizing phase is skipped
HandleQuickWaitingRotation_SkipsStabilizing(e, accel) ==
    LET r == ReadSample(e, accel, ZeroVector)
    IN  IF RotationRecognized(accel)
        THEN TransitionTo(r, "QUICK_STATIC_SIDE")
        ELSE r

\* mutant: the wait for the rotation is given up after STABLE_DURATION
HandleQuickWaitingRotation_TimesOut(e, accel) ==
    LET r == ReadSample(e, accel, ZeroVector)
    IN  IF RotationRecognized(accel)
        THEN TransitionTo(r, "QUICK_STABILIZING")
        ELSE IF now - r.stateStartTime > STABLE_DURATION
        THEN TransitionTo(r, "FAILED")
        ELSE r

HandleQuickWaitingRotation(e, accel) ==
    LET r == ReadSample(e, accel, ZeroVector)
    IN  IF RotationRecognized(accel)
        THEN TransitionTo(r, "QUICK_STABILIZING")
        ELSE r

IsStill(gyro) == MagnitudeSq(gyro) < STILLNESS_THRESHOLD * STILLNESS_THRESHOLD

StableLongEnough(e) == now - e.stableStartTime > STABLE_DURATION

\* Observation: the start of the current streak of readings below the
\* stillness threshold, within the current phase.
ObserveStillness(e, gyro) ==
    [e EXCEPT !.stillSince =
        IF MagnitudeSq(gyro) < STILLNESS_THRESHOLD * STILLNESS_THRESHOLD
        THEN (IF @ = -1 THEN now ELSE @)
        ELSE -1]

HandleQuickStabilizing(e, gyro) ==
    LET r == ObserveStillness(ReadSample(e, ZeroVector, gyro), gyro)
    IN  IF IsStill(gyro)
        THEN IF r.stableStartTime = 0
             THEN [r EXCEPT !.stableStartTime = now]
             ELSE IF StableLongEnough(r)
             THEN TransitionTo([r EXCEPT !.stableStartTime = 0], "QUICK_STATIC_SIDE")
             ELSE r
        ELSE [r EXCEPT !.stableStartTime = 0]

\* mutant: the window is taken to have one slot more
HandleQuickStaticSide_WritesPastEnd(e, accel, gyro) ==
    IF e.sampleCount <= QUICK_SAMPLES
    THEN LET r == ReadSample(e, accel, gyro)
         IN  IF MovementDetected(gyro)
             THEN RejectWindow(r)
             ELSE LET s == [r EXCEPT !.stored = @ + 1, !.sampleCount = @ + 1]
                  IN  ReportEvery(s, SideProgress(s.sampleCount))
    ELSE TransitionTo(CalculateSidePosition(e), "QUICK_COMPLETE")

HandleQuickStaticSide(e, accel, gyro) ==
    IF e.sampleCount < QUICK_SAMPLES
    THEN LET r == ReadSample(e, accel, gyro)
         IN  IF MovementDetected(gyro)
             THEN RejectWindow(r)
             ELSE LET s == StoreSample(r, accel, gyro)
                  IN  ReportEvery(s, SideProgress(s.sampleCount))
    ELSE TransitionTo(CalculateSidePosition(e), "QUICK_COMPLETE")

ProcessCalibration(e, accel, gyro) ==
    IF ~e.calibrationInProgress THEN e
    ELSE CASE e.currentState = "QUICK_STATIC_FLAT" -> HandleQuickStaticFlat(e, accel, gyro)
           [] e.currentState = "QUICK_WAITING_ROTATION" -> HandleQuickWaitingRotation(e, accel)
           [] e.currentState = "QUICK_STABILIZING" -> HandleQuickStabilizing(e, gyro)
           [] e.currentState = "QUICK_STATIC_SIDE" -> HandleQuickStaticSide(e, accel, gyro)
           [] e.currentState = "QUICK_COMPLETE" -> [e EXCEPT !.calibrationInProgress = FALSE]
           [] e.currentState = "FAILED" -> [e EXCEPT !.calibrationInProgress = FALSE]
           [] OTHER -> e

\* mutant: gyroSamples.reset() is forgotten
AbortCalibration_KeepsGyroBuffer(e) ==
    IF ~e.calibrationInProgress THEN e
    ELSE LET e1 == ResetBuffer(e, "accelSamples", NullBuffer)
         IN  TransitionTo([e1 EXCEPT !.calibrationInProgress = FALSE,
                                     !.calibData.isValid = FALSE],
                          "FAILED")

\* mutant: the "not in progress" early return is missing
AbortCalibration_NoGuard(e) ==
    LET e1 == ResetBuffer(e, "accelSamples", NullBuffer)
        e2 == ResetBuffer(e1, "gyroSamples", NullBuffer)
    IN  TransitionTo([e2 EXCEPT !.calibrationInProgress = FALSE,
                                !.calibData.isValid = FALSE],
                     "FAILED")

\* mutant: the run stays in progress
AbortCalibration_KeepsInProgress(e) ==
    IF ~e.calibrationInProgress THEN e
    ELSE LET e1 == ResetBuffer(e, "accelSamples", NullBuffer)
             e2 == ResetBuffer(e1, "gyroSamples", NullBuffer)
         IN  TransitionTo([e2 EXCEPT !.calibData.isValid = FALSE], "FAILED")

\* mutant: the failure is reported a second time
AbortCalibration_ReportsTwice(e) ==
    IF ~e.calibrationInProgress THEN e
    ELSE LET e1 == ResetBuffer(e, "accelSamples", NullBuffer)
             e2 == ResetBuffer(e1, "gyroSamples", NullBuffer)
         IN  SendStatusToApp(TransitionTo([e2 EXCEPT !.calibrationInProgress = FALSE,
                                                     !.calibData.isValid = FALSE],
                                          "FAILED"))

AbortCalibration(e) ==
    IF ~e.calibrationInProgress THEN e
    ELSE LET e1 == ResetBuffer(e, "accelSamples", NullBuffer)
             e2 == ResetBuffer(e1, "gyroSamples", NullBuffer)
         IN  TransitionTo([e2 EXCEPT !.calibrationInProgress = FALSE,
                                     !.calibData.isValid = FALSE],
                          "FAILED")

\* mutant: the comparison with the deadband is inclusive
Deadband_Inclusive(v) == IF Abs(v) <= GYRO_DEADBAND THEN 0 ELSE v

\* std::abs(v) < GYRO_DEADBAND ? 0.0f : v
Deadband(v) == IF Abs(v) < GYRO_DEADBAND THEN 0 ELSE v

\* mutant: the bias is added
ScaleAndShift_AddsBias(raw, scale, bias) == FDiv(raw * scale, Milli) + bias

\* raw * calibData.accelScale - calibData.accelBias, on one axis
ScaleAndShift(raw, scale, bias) == FDiv(raw * scale, Milli) - bias

\* the correction proper, taken when calibData.isValid
ApplyCalibration(c, rawAccel, rawGyro) ==
    LET correctedGyro == VecSub(rawGyro, c.gyroBias)
    IN  [accel |-> Vector3D(ScaleAndShift(rawAccel.x, c.accelScale, c.accelBias.x),
                            ScaleAndShift(rawAccel.y, c.accelScale, c.accelBias.y),
                            ScaleAndShift(rawAccel.z, c.accelScale, c.accelBias.z)),
         gyro |-> Vector3D(Deadband(correctedGyro.x), Deadband(correctedGyro.y),
                           Deadband(correctedGyro.z)),
         isValid |-> TRUE]

Returned(e, rawAccel, rawGyro, result) ==
    [e EXCEPT !.corrected = [rawAccel |-> rawAccel, rawGyro |-> rawGyro,
                             result |-> result, called |-> TRUE]]

\* mutant: the isValid check is missing
CorrectSensorData_IgnoresValidity(e, rawAccel, rawGyro) ==
    Returned(e, rawAccel, rawGyro,
             [ApplyCalibration(e.calibData, rawAccel, rawGyro)
                 EXCEPT !.isValid = e.calibData.isValid])

CorrectSensorData(e, rawAccel, rawGyro) ==
    Returned(e, rawAccel, rawGyro,
             IF ~e.calibData.isValid
             THEN [accel |-> rawAccel, gyro |-> rawGyro, isValid |-> FALSE]
             ELSE ApplyCalibration(e.calibData, rawAccel, rawGyro))

(***************************************************************************)
(* The full (multi-position) engine: embedded/src/setupCalibration.{h,cpp} *)
(* It is a second SetupCalibration class with the same member names; its   *)
(* object is the record full, and its members carry the prefix Full.       *)
(*                                                                         *)
(* Units: accelerations in milli-g, angular rates in 1/10 of the unit of   *)
(* the thresholds, temperatures in 1/10 degree C, times in ms.             *)
(* Left out: calibData.positionData, calibData.temperature and             *)
(* calibData.timestamp, which only isCalibrationValid() reads, and the     *)
(* static maxRotation, which is written and never read.                    *)
(***************************************************************************)
WARMUP_DURATION == 30000
TEMP_STABILITY_THRESHOLD == 5
POSITION_TOLERANCE == 200
Full_ROTATION_THRESHOLD == 5
Full_STILLNESS_THRESHOLD == 1
ROTATION_CHECK_DELAY == 2000
MAX_TEMP_DIFFERENCE == 100
QUICK_POSITION_TOLERANCE == 500
QUICK_MOVEMENT_TOLERANCE == 2
\* the factor of "QUICK_MOVEMENT_TOLERANCE * 1000" in handleQuickStatic
MovementHotfix == 1000

\* Bounds of the full engine: 1000 samples per phase, 100 temperature
\* readings and 500 movement-validation calls in the firmware; the position
\* is validated every 10th and displayed every 100th sample there.
SAMPLES_PER_STATE == 2
TEMP_CHECK_SAMPLES == 2
MOVEMENT_SAMPLES == 5
PositionCheckEvery == 1
PositionShowEvery == 2

\* enum class CalibrationState : uint8_t, value i at position i + 1
CalibrationState ==
    <<"IDLE", "WARMUP", "TEMP_CHECK", "BIAS_ESTIMATION", "POSITION_Z_UP",
      "POSITION_Z_DOWN", "POSITION_Y_UP", "POSITION_Y_DOWN", "POSITION_X_UP",
      "POSITION_X_DOWN", "MOVEMENT_CHECK", "COMPLETED", "FAILED", "QUICK_STATIC",
      "QUICK_VALIDATION", "QUICK_COMPLETE">>
StateValue(s) == CHOOSE i \in 0..15 : CalibrationState[i + 1] = s
StateOfValue(i) == CalibrationState[i + 1]
IsPosition(s) ==
    StateValue(s) >= StateValue("POSITION_Z_UP")
        /\ StateValue(s) <= StateValue("POSITION_X_DOWN")

\* calibrationPositions[i].expectedGravity, i from 0
calibrationPositions ==
    <<Vector3D(0, 0, GRAVITY_MAGNITUDE), Vector3D(0, 0, -GRAVITY_MAGNITUDE),
      Vector3D(0, GRAVITY_MAGNITUDE, 0), Vector3D(0, -GRAVITY_MAGNITUDE, 0),
      Vector3D(GRAVITY_MAGNITUDE, 0, 0), Vector3D(-GRAVITY_MAGNITUDE, 0, 0)>>

\* enum class MovementState of processMovementValidation
MovementStates ==
    {"ROTATE_X", "CHECK_X", "ROTATE_Y", "CHECK_Y", "ROTATE_Z", "CHECK_Z", "COMPLETE"}

FullNewBuffer(n) == [i \in 1..n |-> ZeroVector]

\* Observation: the gyro of the sample pair and the temperature the IMU
\* delivered during the last operation, when it read them
FullNoReading == [gyro |-> ZeroVector, sampled |-> FALSE, temp |-> 0, measured |-> FALSE]
Sampled(f, r) == [f EXCEPT !.reading.gyro = r.gyro, !.reading.sampled = TRUE]
Measured(f, temp) == [f EXCEPT !.reading.temp = temp, !.reading.measured = TRUE]

\* the object after its constructor, and the function statics at program start
FullConstructed ==
    [calibrationInProgress |-> FALSE, currentState |-> "IDLE", stateStartTime |-> 0,
     sampleCount |-> 0, initialTemp |-> 0, accelSamples |-> NullBuffer,
     gyroSamples |-> NullBuffer, temperatureHistory |-> << >>,
     calibData |-> [accelBias |-> ZeroVector, gyroBias |-> ZeroVector,
                    isValid |-> FALSE],
     moveState |-> "ROTATE_X", stateTimer |-> 0, sampleCounter |-> 0,
     lastOp |-> "none", notified |-> << >>, shown |-> << >>,
     reading |-> FullNoReading]

\* The object at the entry of the public operation op: nothing observed yet.
FullBegin(op) ==
    [full EXCEPT !.lastOp = op, !.notified = << >>, !.shown = << >>,
                 !.reading = FullNoReading]

FullPositionIndex(f) ==
    IF IsPosition(f.currentState)
    THEN StateValue(f.currentState) - StateValue("POSITION_Z_UP")
    ELSE 0

FullShow(f, percent) == [f EXCEPT !.shown = Append(@, percent)]

\* setValue() and notify() of one CalibrationProgress record (its temperature
\* field is left out)
FullNotify(f, progress) ==
    IF ~pCalibCharacteristic
    THEN f
    ELSE [f EXCEPT !.notified =
              Append(@, [state |-> f.currentState, progress |-> progress,
                         positionIndex |-> FullPositionIndex(f)])]

FullSendStatusToApp(f) == FullNotify(f, 0)

FullUpdateProgress(f, progress) == FullNotify(FullShow(f, progress), progress)

FullTransitionTo(f, newState) ==
    FullShow(FullSendStatusToApp([f EXCEPT !.currentState = newState,
                                           !.stateStartTime = now,
                                           !.sampleCount = 0]), 0)

\* operator new[] throws std::bad_alloc when it fails
FullAllocOutcomes == {"ok", "throw"}

\* startCalibration and startFullCalibration differ in temperatureHistory.clear()
FullStartRun(f, a1, a2, clear, temp) ==
    IF f.calibrationInProgress
    THEN f
    ELSE IF a1 = "throw"
         THEN FullTransitionTo(f, "FAILED")
         ELSE LET f1 == [f EXCEPT !.accelSamples = FullNewBuffer(SAMPLES_PER_STATE)]
              IN  IF a2 = "throw"
                  THEN FullTransitionTo(f1, "FAILED")
                  ELSE FullTransitionTo(
                           [f1 EXCEPT !.gyroSamples = FullNewBuffer(SAMPLES_PER_STATE),
                                      !.temperatureHistory =
                                          IF clear THEN << >> ELSE @,
                                      !.calibrationInProgress = TRUE,
                                      !.initialTemp = temp],
                           "WARMUP")

FullStartCalibration(f, a1, a2, temp) == FullStartRun(f, a1, a2, TRUE, temp)
FullStartFullCalibration(f, a1, a2, temp) == FullStartRun(f, a1, a2, FALSE, temp)

FullStartQuickCalibration(f, a1, a2) ==
    IF f.calibrationInProgress
    THEN f
    ELSE IF a1 = "throw"
         THEN FullTransitionTo(f, "FAILED")
         ELSE LET f1 == [f EXCEPT !.accelSamples = FullNewBuffer(QUICK_SAMPLES)]
              IN  IF a2 = "throw"
                  THEN FullTransitionTo(f1, "FAILED")
                  ELSE FullTransitionTo(
                           [f1 EXCEPT !.gyroSamples = FullNewBuffer(QUICK_SAMPLES),
                                      !.calibrationInProgress = TRUE],
                           "QUICK_STATIC")

\* |gravity.magnitude() - GRAVITY_MAGNITUDE| > tolerance, through the squares
MagnitudeOff(gravity, tolerance) ==
    \/ MagnitudeSq(gravity) >
           (GRAVITY_MAGNITUDE + tolerance) * (GRAVITY_MAGNITUDE + tolerance)
    \/ MagnitudeSq(gravity) <
           (GRAVITY_MAGNITUDE - tolerance) * (GRAVITY_MAGNITUDE - tolerance)

ValidateQuickPosition(gravity) ==
    /\ ~MagnitudeOff(gravity, QUICK_POSITION_TOLERANCE)
    /\ Abs(gravity.z - GRAVITY_MAGNITUDE) <= QUICK_POSITION_TOLERANCE
    /\ Abs(gravity.x) <= QUICK_POSITION_TOLERANCE
    /\ Abs(gravity.y) <= QUICK_POSITION_TOLERANCE

ValidatePosition(gravity, positionIndex) ==
    /\ positionIndex < Len(calibrationPositions)
    /\ ~MagnitudeOff(gravity, POSITION_TOLERANCE)
    /\ LET expected == calibrationPositions[positionIndex + 1]
       IN  /\ Abs(gravity.x - expected.x) <= POSITION_TOLERANCE
           /\ Abs(gravity.y - expected.y) <= POSITION_TOLERANCE
           /\ Abs(gravity.z - expected.z) <= POSITION_TOLERANCE

\* gyro.magnitude() > QUICK_MOVEMENT_TOLERANCE * 1000
QuickMovement(gyro) ==
    MagnitudeSq(gyro) > (QUICK_MOVEMENT_TOLERANCE * MovementHotfix)
                            * (QUICK_MOVEMENT_TOLERANCE * MovementHotfix)

\* the mean of the first n elements of a sample buffer
FullMean(samples, n) == VecDiv(SumSamples(samples, n), n)

\* r is what the IMU delivers during the call: accel and gyro to the sampling
\* read, check to the position-validation read, temp0 and temp to getTemp()
FullHandleQuickStatic(f, r) ==
    LET f0 == IF f.sampleCount = 0 THEN [f EXCEPT !.initialTemp = r.temp0] ELSE f
    IN  IF f0.sampleCount < QUICK_SAMPLES
        THEN IF Abs(r.temp - f0.initialTemp) > MAX_TEMP_DIFFERENCE
             THEN Measured(f0, r.temp)
             ELSE IF QuickMovement(r.gyro)
                  THEN [Sampled(Measured(f0, r.temp), r) EXCEPT !.sampleCount = 0]
                  ELSE LET f1 ==
                               [Sampled(Measured(f0, r.temp), r) EXCEPT
                                    !.accelSamples[f0.sampleCount + 1] = r.accel,
                                    !.gyroSamples[f0.sampleCount + 1] = r.gyro,
                                    !.sampleCount = @ + 1]
                       IN  FullUpdateProgress(
                               f1, Uint8((f1.sampleCount * 100) \div QUICK_SAMPLES))
        ELSE FullTransitionTo(f0, "QUICK_VALIDATION")

FullHandleQuickValidation(f) ==
    LET accelMean == FullMean(f.accelSamples, QUICK_SAMPLES)
        gyroMean == FullMean(f.gyroSamples, QUICK_SAMPLES)
    IN  IF ValidateQuickPosition(accelMean)
        THEN FullTransitionTo(
                 FullShow([f EXCEPT !.calibData =
                               [gyroBias |-> gyroMean,
                                accelBias |-> Vector3D(accelMean.x, accelMean.y,
                                                       accelMean.z - GRAVITY_MAGNITUDE),
                                isValid |-> TRUE]], 100),
                 "QUICK_COMPLETE")
        ELSE FullTransitionTo(f, "FAILED")

FullHandleWarmup(f) ==
    LET elapsed == now - f.stateStartTime
    IN  IF elapsed >= WARMUP_DURATION
        THEN FullTransitionTo(f, "TEMP_CHECK")
        ELSE FullUpdateProgress(f, Uint8((elapsed * 100) \div WARMUP_DURATION))

RECURSIVE SeqMax(_), SeqMin(_)
SeqMax(s) ==
    IF Len(s) = 1 THEN s[1]
    ELSE LET m == SeqMax(Tail(s)) IN IF s[1] > m THEN s[1] ELSE m
SeqMin(s) ==
    IF Len(s) = 1 THEN s[1]
    ELSE LET m == SeqMin(Tail(s)) IN IF s[1] < m THEN s[1] ELSE m

IsTemperatureStable(history) ==
    IF Len(history) < TEMP_CHECK_SAMPLES
    THEN FALSE
    ELSE SeqMax(history) - SeqMin(history) <= TEMP_STABILITY_THRESHOLD

FullHandleTempCheck(f, r) ==
    LET f1 == [Measured(f, r.temp) EXCEPT !.temperatureHistory = Append(@, r.temp)]
    IN  IF Len(f1.temperatureHistory) >= TEMP_CHECK_SAMPLES
        THEN IF IsTemperatureStable(f1.temperatureHistory)
             THEN FullTransitionTo(f1, "BIAS_ESTIMATION")
             ELSE FullTransitionTo(f1, "FAILED")
        ELSE FullUpdateProgress(
                 f1, Uint8((Len(f1.temperatureHistory) * 100) \div TEMP_CHECK_SAMPLES))

CollectSample(f, r) ==
    [Sampled(f, r) EXCEPT !.accelSamples[f.sampleCount + 1] = r.accel,
                          !.gyroSamples[f.sampleCount + 1] = r.gyro,
                          !.sampleCount = @ + 1]

CalculateBias(f) ==
    [f EXCEPT !.calibData.accelBias = FullMean(f.accelSamples, SAMPLES_PER_STATE),
              !.calibData.gyroBias = FullMean(f.gyroSamples, SAMPLES_PER_STATE)]

FullHandleBiasEstimation(f, r) ==
    IF f.sampleCount < SAMPLES_PER_STATE
    THEN LET f1 == CollectSample(f, r)
         IN  FullUpdateProgress(
                 f1, Uint8((f1.sampleCount * 100) \div SAMPLES_PER_STATE))
    ELSE FullTransitionTo(CalculateBias(f), "POSITION_Z_UP")

\* mutant: a position phase is left one sample early
FullHandlePositionCalibration_LeavesEarly(f, r) ==
    LET positionIndex == StateValue(f.currentState) - StateValue("POSITION_Z_UP")
    IN  IF f.sampleCount < SAMPLES_PER_STATE - 1
        THEN LET f1 == CollectSample(f, r)
                 f2 == IF f1.sampleCount % PositionShowEvery = 0
                       THEN FullShow(f1, Uint8((f1.sampleCount * 100)
                                                   \div SAMPLES_PER_STATE))
                       ELSE f1
             IN  IF f2.sampleCount % PositionCheckEvery = 0
                        /\ ~ValidatePosition(r.check, positionIndex)
                 THEN FullShow([f2 EXCEPT !.sampleCount = 0], 0)
                 ELSE f2
        ELSE IF positionIndex < Len(calibrationPositions) - 1
             THEN FullTransitionTo(f, StateOfValue(StateValue(f.currentState) + 1))
             ELSE FullTransitionTo(f, "MOVEMENT_CHECK")

FullHandlePositionCalibration(f, r) ==
    LET positionIndex == StateValue(f.currentState) - StateValue("POSITION_Z_UP")
    IN  IF f.sampleCount < SAMPLES_PER_STATE
        THEN LET f1 == CollectSample(f, r)
                 f2 == IF f1.sampleCount % PositionShowEvery = 0
                       THEN FullShow(f1, Uint8((f1.sampleCount * 100)
                                                   \div SAMPLES_PER_STATE))
                       ELSE f1
             IN  IF f2.sampleCount % PositionCheckEvery = 0
                        /\ ~ValidatePosition(r.check, positionIndex)
                 THEN FullShow([f2 EXCEPT !.sampleCount = 0], 0)
                 ELSE f2
        ELSE \* calculatePositionData writes calibData.positionData only
             IF positionIndex < Len(calibrationPositions) - 1
             THEN FullTransitionTo(f, StateOfValue(StateValue(f.currentState) + 1))
             ELSE FullTransitionTo(f, "MOVEMENT_CHECK")

CheckRotation(rotation) == Abs(rotation) > Full_ROTATION_THRESHOLD
CheckStillness(gyro) ==
    MagnitudeSq(gyro) < Full_STILLNESS_THRESHOLD * Full_STILLNESS_THRESHOLD

\* sampleCounter only grows and is only compared with MOVEMENT_SAMPLES: the
\* model stops counting one past the threshold
CountCall(f) ==
    [f EXCEPT !.sampleCounter = IF @ > MOVEMENT_SAMPLES THEN @ ELSE @ + 1]

\* processMovementValidation: the object after the call and the value returned
ProcessMovementValidation(f, r) ==
    LET rotated(rotation, next) ==
            IF CheckRotation(rotation)
            THEN [f EXCEPT !.moveState = next, !.stateTimer = now]
            ELSE f
        settled(next) ==
            IF now - f.stateTimer > ROTATION_CHECK_DELAY /\ CheckStillness(r.gyro)
            THEN [f EXCEPT !.moveState = next]
            ELSE f
        after ==
            CASE f.moveState = "ROTATE_X" -> rotated(r.gyro.x, "CHECK_X")
              [] f.moveState = "CHECK_X" -> settled("ROTATE_Y")
              [] f.moveState = "ROTATE_Y" -> rotated(r.gyro.y, "CHECK_Y")
              [] f.moveState = "CHECK_Y" -> settled("ROTATE_Z")
              [] f.moveState = "ROTATE_Z" -> rotated(r.gyro.z, "CHECK_Z")
              [] f.moveState = "CHECK_Z" -> settled("COMPLETE")
              [] OTHER -> f
        display ==
            CASE f.moveState = "ROTATE_X" -> FullShow(after, 0)
              [] f.moveState = "ROTATE_Y" -> FullShow(after, 33)
              [] f.moveState = "ROTATE_Z" -> FullShow(after, 66)
              [] OTHER -> after
    IN  IF f.moveState = "COMPLETE"
        THEN [object |-> FullShow([f EXCEPT !.moveState = "ROTATE_X"], 100),
              result |-> TRUE]
        ELSE IF display.sampleCounter > MOVEMENT_SAMPLES
             THEN [object |-> CountCall([display EXCEPT !.moveState = "ROTATE_X"]),
                   result |-> FALSE]
             ELSE [object |-> CountCall(display), result |-> FALSE]

FullHandleMovementCheck(f, r) ==
    LET v == ProcessMovementValidation(f, r)
    IN  IF v.result
        THEN FullTransitionTo([v.object EXCEPT !.calibData.isValid = TRUE],
                              "COMPLETED")
        ELSE FullTransitionTo(v.object, "FAILED")

FullProcessCalibration(f, r) ==
    IF ~f.calibrationInProgress
    THEN f
    ELSE CASE f.currentState = "WARMUP" -> FullHandleWarmup(f)
           [] f.currentState = "TEMP_CHECK" -> FullHandleTempCheck(f, r)
           [] f.currentState = "BIAS_ESTIMATION" -> FullHandleBiasEstimation(f, r)
           [] IsPosition(f.currentState) -> FullHandlePositionCalibration(f, r)
           [] f.currentState = "MOVEMENT_CHECK" -> FullHandleMovementCheck(f, r)
           [] f.currentState = "QUICK_STATIC" -> FullHandleQuickStatic(f, r)
           [] f.currentState = "QUICK_VALIDATION" -> FullHandleQuickValidation(f)
           [] f.currentState = "QUICK_COMPLETE" ->
                  [f EXCEPT !.calibrationInProgress = FALSE]
           [] OTHER -> f

FullAbortCalibration(f) ==
    IF ~f.calibrationInProgress
    THEN f
    ELSE FullTransitionTo([f EXCEPT !.accelSamples = NullBuffer,
                                    !.gyroSamples = NullBuffer,
                                    !.temperatureHistory = << >>,
                                    !.calibrationInProgress = FALSE,
                                    !.calibData.isValid = FALSE],
                          "FAILED")

(***************************************************************************)
(* The state machine                                                       *)
(***************************************************************************)
Init ==
    /\ calibrationInProgress = FALSE
    /\ currentState = "IDLE"
    /\ currentProgress = 0
    /\ stateStartTime = 0
    /\ sampleCount = 0
    /\ accelSamples = NullBuffer
    /\ gyroSamples = NullBuffer
    /\ calibData = [accelBias |-> ZeroVector, gyroBias |-> ZeroVector,
                    accelScale |-> Milli, isValid |-> FALSE]
    /\ flatAccelMean = ZeroVector
    /\ sideAccelMean = ZeroVector
    /\ stableStartTime = 0
    /\ deviceConnected = FALSE
    /\ now = SETUP_DELAY
    /\ lastOp = "none"
    /\ repeated = FALSE
    /\ lastResult = "-"
    /\ notified = << >>
    /\ shown = << >>
    /\ samplesRead = 0
    /\ stored = 0
    /\ released = 0
    /\ entered = << >>
    /\ fresh = NoneFresh
    /\ staleAveraged = FALSE
    /\ stillSince = -1
    /\ reading = NoReading
    /\ restarted = FALSE
    /\ nullDeref = FALSE
    /\ flatGyroWindow = NullBuffer
    /\ corrected = NoCorrection
    /\ command = NoCommand
    /\ full = FullConstructed
    /\ mainLoop = LoopConstructed
    /\ threads = ThreadsConstructed

Start ==
    \E a1 \in AllocOutcomes, a2 \in AllocOutcomes :
        Commit("start", StartQuickCalibration(Begin, a1, a2))

Process ==
    \E accel \in AccelVals, gyro \in GyroVals :
        Commit("process", ProcessCalibration(Begin, accel, gyro))

Abort == Commit("abort", AbortCalibration(Begin))

\* time passes
Tick ==
    /\ now < SETUP_DELAY + MaxTicks * TickMs
    /\ now' = now + TickMs
    /\ UNCHANGED <<calibrationInProgress, currentState, currentProgress, stateStartTime,
          sampleCount, accelSamples, gyroSamples, calibData, flatAccelMean,
          sideAccelMean, stableStartTime, deviceConnected, lastOp, repeated,
          lastResult, notified, shown, samplesRead, stored, released, entered,
          fresh, staleAveraged, stillSince, reading, restarted, nullDeref,
          flatGyroWindow, corrected, command, full, mainLoop, threads>>

\* ServerCallbacks::onConnect / onDisconnect
SetConnected(c) ==
    /\ deviceConnected # c
    /\ deviceConnected' = c
    /\ UNCHANGED <<calibrationInProgress, currentState, currentProgress, stateStartTime,
          sampleCount, accelSamples, gyroSamples, calibData, flatAccelMean,
          sideAccelMean, stableStartTime, now, lastOp, repeated,
          lastResult, notified, shown, samplesRead, stored, released, entered,
          fresh, staleAveraged, stillSince, reading, restarted, nullDeref,
          flatGyroWindow, corrected, command, full, mainLoop, threads>>

OnConnect == SetConnected(TRUE)
OnDisconnect == SetConnected(FALSE)

Next == Start \/ Process \/ Abort \/ Tick \/ OnConnect \/ OnDisconnect

Spec == Init /\ [][Next]_vars

(***************************************************************************)
(* The data path.  The readings of Spec are two accelerations and two      *)
(* angular rates; what the engine computes from a window, and what         *)
(* correctSensorData() makes of the result, is explored from engines that  *)
(* have collected a full window of finer readings: a full flat window      *)
(* (FlatWindowFull) or, after a flat phase, a full side window             *)
(* (SideWindowFull).  From there the engine runs on as in Spec, and the    *)
(* main loop's correctSensorData() is applied in every state.              *)
(***************************************************************************)
FlatReadings == {Vector3D(0, 0, 1020), Vector3D(100, -20, 800)}
SideReadings == {Vector3D(980, 0, 0), Vector3D(800, 20, 40)}
RestReadings == {Vector3D(300, 0, 0), Vector3D(-100, 4, 0)}

\* a large-magnitude reading: 1000 g, 10000 deg/s
LargeRaw == 1000000

RawInputs ==
    {[accel |-> ZeroVector, gyro |-> ZeroVector],
     [accel |-> Vector3D(LargeRaw, -LargeRaw, LargeRaw),
      gyro |-> Vector3D(-LargeRaw, LargeRaw, LargeRaw)],
     [accel |-> Vector3D(0, 0, 1000), gyro |-> Vector3D(304, 5, -5)],
     [accel |-> Vector3D(1000, 20, -30), gyro |-> Vector3D(296, -4, 6)]}

AllFresh == [i \in 1..QUICK_SAMPLES |-> TRUE]

\* the sample count of the last progress report of a full window
LastReported == (QUICK_SAMPLES \div PROGRESS_INTERVAL) * PROGRESS_INTERVAL

\* the engine of Init after a start and a run up to the given sampling phase
\* with a full window: what is common to both phases
WindowFull(state) ==
    /\ calibrationInProgress = TRUE
    /\ currentState = state
    /\ stateStartTime = SETUP_DELAY
    /\ sampleCount = QUICK_SAMPLES
    /\ stableStartTime = 0
    /\ deviceConnected = TRUE
    /\ now = SETUP_DELAY
    /\ lastOp = "process"
    /\ repeated = TRUE
    /\ lastResult = "-"
    /\ samplesRead = 1
    /\ stored = 1
    /\ released = 0
    /\ entered = << >>
    /\ fresh = AllFresh
    /\ staleAveraged = FALSE
    /\ stillSince = -1
    /\ restarted = FALSE
    /\ nullDeref = FALSE
    /\ corrected = NoCorrection
    /\ command = NoCommand
    /\ full = FullConstructed
    /\ mainLoop = LoopConstructed
    /\ threads = ThreadsConstructed
    /\ reading = [accel |-> accelSamples[QUICK_SAMPLES],
                  gyro |-> gyroSamples[QUICK_SAMPLES], valid |-> TRUE]

ReportedLast(progress) ==
    IF QUICK_SAMPLES % PROGRESS_INTERVAL = 0
    THEN (/\ shown = <<progress>>
          /\ notified = <<[state |-> currentState, progress |-> progress]>>)
    ELSE (shown = << >> /\ notified = << >>)

FlatWindowFull ==
    /\ accelSamples \in [1..QUICK_SAMPLES -> FlatReadings]
    /\ gyroSamples \in [1..QUICK_SAMPLES -> RestReadings]
    /\ calibData = [accelBias |-> ZeroVector, gyroBias |-> ZeroVector,
                    accelScale |-> Milli, isValid |-> FALSE]
    /\ flatAccelMean = ZeroVector
    /\ sideAccelMean = ZeroVector
    /\ flatGyroWindow = NullBuffer
    /\ currentProgress = FlatProgress(LastReported)
    /\ WindowFull("QUICK_STATIC_FLAT")
    /\ ReportedLast(FlatProgress(LastReported))

SideWindowFull ==
    /\ accelSamples \in [1..QUICK_SAMPLES -> SideReadings]
    /\ gyroSamples = [i \in 1..QUICK_SAMPLES |-> Vector3D(300, 0, 0)]
    /\ \E flatAccel \in [1..QUICK_SAMPLES -> FlatReadings],
          flatGyro \in [1..QUICK_SAMPLES -> RestReadings] :
          /\ flatAccelMean = CalculateMean(flatAccel, QUICK_SAMPLES)
          /\ flatGyroWindow = flatGyro
          /\ calibData = [accelBias |-> ZeroVector,
                          gyroBias |-> CalculateMean(flatGyro, QUICK_SAMPLES),
                          accelScale |-> Milli, isValid |-> FALSE]
    /\ sideAccelMean = ZeroVector
    /\ currentProgress = SideProgress(LastReported)
    /\ WindowFull("QUICK_STATIC_SIDE")
    /\ ReportedLast(SideProgress(LastReported))

InitData == Init \/ FlatWindowFull \/ SideWindowFull

\* the main loop's correction of a live sample
Correct ==
    \E raw \in RawInputs :
        Commit("correct", CorrectSensorData(Begin, raw.accel, raw.gyro))

NextData == Process \/ Abort \/ Tick \/ Correct

SpecData == InitData /\ [][NextData]_vars

(***************************************************************************)
(* The command channel (main.cpp).  The app drives the engine by writing   *)
(* one byte to the calibration characteristic; the main loop polls the     *)
(* engine and time passes.  A client is connected when it writes.          *)
(***************************************************************************)
START_QUICK == 1
ABORT == 2

\* bound of the command bytes written: 1..MaxCommand
MaxCommand == 3
CommandBytes == 1..MaxCommand

\* the outcomes of the two allocations a command can lead to
AllocationsOf(cmd) ==
    IF cmd = START_QUICK THEN AllocOutcomes \X AllocOutcomes ELSE {<<"ok", "ok">>}

\* mutant: every byte that is not START_QUICK aborts
OnWrite_DefaultAborts(e, cmd, a1, a2) ==
    CASE cmd = START_QUICK ->
           [op |-> "start", engine |-> StartQuickCalibration(e, a1, a2)]
      [] OTHER -> [op |-> "abort", engine |-> AbortCalibration(e)]

\* CalibrationCallback::onWrite: the engine operation invoked, if any, and
\* the engine after it
OnWrite(e, cmd, a1, a2) ==
    CASE cmd = START_QUICK ->
           [op |-> "start", engine |-> StartQuickCalibration(e, a1, a2)]
      [] cmd = ABORT -> [op |-> "abort", engine |-> AbortCalibration(e)]
      [] OTHER -> [op |-> "none", engine |-> e]

Write ==
    \E cmd \in CommandBytes :
        \E a \in AllocationsOf(cmd) :
            LET w == OnWrite(Begin, cmd, a[1], a[2])
            IN  Commit(w.op, [w.engine EXCEPT !.command = cmd])

\* the engine of Init, with a client connected
InitCommand ==
    /\ calibrationInProgress = FALSE
    /\ currentState = "IDLE"
    /\ currentProgress = 0
    /\ stateStartTime = 0
    /\ sampleCount = 0
    /\ accelSamples = NullBuffer
    /\ gyroSamples = NullBuffer
    /\ calibData = [accelBias |-> ZeroVector, gyroBias |-> ZeroVector,
                    accelScale |-> Milli, isValid |-> FALSE]
    /\ flatAccelMean = ZeroVector
    /\ sideAccelMean = ZeroVector
    /\ stableStartTime = 0
    /\ deviceConnected = TRUE
    /\ now = SETUP_DELAY
    /\ lastOp = "none"
    /\ repeated = FALSE
    /\ lastResult = "-"
    /\ notified = << >>
    /\ shown = << >>
    /\ samplesRead = 0
    /\ stored = 0
    /\ released = 0
    /\ entered = << >>
    /\ fresh = NoneFresh
    /\ staleAveraged = FALSE
    /\ stillSince = -1
    /\ reading = NoReading
    /\ restarted = FALSE
    /\ nullDeref = FALSE
    /\ flatGyroWindow = NullBuffer
    /\ corrected = NoCorrection
    /\ command = NoCommand
    /\ full = FullConstructed
    /\ mainLoop = LoopConstructed
    /\ threads = ThreadsConstructed

NextCommand == Write \/ Process \/ Tick

SpecCommand == InitCommand /\ [][NextCommand]_vars

(***************************************************************************)
(* The full engine as a state machine.  The quick engine's variables stay  *)
(* as Init leaves them.                                                    *)
(***************************************************************************)
\* ambient (25.0 C) and heated (36.0 C): further apart than
\* TEMP_STABILITY_THRESHOLD and than MAX_TEMP_DIFFERENCE
Ambient == 250
Heated == 360
\* the acceleration expected in the current phase, and one that matches no
\* position and spoils every mean it enters
Expected == calibrationPositions[FullPositionIndex(full) + 1]
Jolted == Vector3D(1100, 1100, 0)
\* at rest, shaken beyond the movement tolerance, and turned about one axis
AtRest == ZeroVector
Shaken == Vector3D(3000, 0, 0)
Turned == {Vector3D(10, 0, 0), Vector3D(0, 10, 0), Vector3D(0, 0, 10)}

\* What the IMU delivers during one processCalibration(): the reads the
\* current handler makes vary, the others are fixed.  The first temperature of
\* a series is ambient, the later ones vary; the acceleration stored in
\* BIAS_ESTIMATION and in the position phases is the expected one, and the
\* validation read of the position phases varies; the device is shaken in
\* QUICK_STATIC, in BIAS_ESTIMATION and in the first position phase.
FullReadings ==
    LET s == full.currentState
    IN  [accel : IF s = "QUICK_STATIC" THEN {Expected, Jolted} ELSE {Expected},
         check : IF IsPosition(s) THEN {Expected, Jolted} ELSE {Expected},
         gyro  : IF s = "MOVEMENT_CHECK" THEN {AtRest, Shaken} \cup Turned
                 ELSE IF s \in {"BIAS_ESTIMATION", "POSITION_Z_UP", "QUICK_STATIC"}
                      THEN {AtRest, Shaken}
                      ELSE {AtRest},
         temp0 : {Ambient},
         temp  : IF s = "QUICK_STATIC"
                      \/ (s = "TEMP_CHECK" /\ full.temperatureHistory # << >>)
                 THEN {Ambient, Heated} ELSE {Ambient}]

FullStep(f) ==
    /\ full' = f
    /\ UNCHANGED <<calibrationInProgress, currentState, currentProgress, stateStartTime,
          sampleCount, accelSamples, gyroSamples, calibData, flatAccelMean,
          sideAccelMean, stableStartTime, deviceConnected, now, lastOp, repeated,
          lastResult, notified, shown, samplesRead, stored, released, entered,
          fresh, staleAveraged, stillSince, reading, restarted, nullDeref,
          flatGyroWindow, corrected, command, mainLoop, threads>>

FullStart ==
    \E a1 \in FullAllocOutcomes, a2 \in FullAllocOutcomes :
        FullStep(FullStartCalibration(FullBegin("startCalibration"), a1, a2, Ambient))

FullStartFull ==
    \E a1 \in FullAllocOutcomes, a2 \in FullAllocOutcomes :
        FullStep(FullStartFullCalibration(FullBegin("startFullCalibration"),
                                          a1, a2, Ambient))

FullStartQuick ==
    \E a1 \in FullAllocOutcomes, a2 \in FullAllocOutcomes :
        FullStep(FullStartQuickCalibration(FullBegin("startQuickCalibration"), a1, a2))

FullProcess ==
    \E r \in FullReadings :
        FullStep(FullProcessCalibration(FullBegin("processCalibration"), r))

FullAbort == FullStep(FullAbortCalibration(FullBegin("abortCalibration")))

\* Time passes.  millis() - t is all the engine computes from a timestamp t,
\* so a state is kept up to a shift of the clock: Elapse moves the two
\* timestamps back instead of millis() forward, and no further than MaxAge,
\* the longest delay a timestamp's age is compared with.
ElapseMs == WARMUP_DURATION
MaxAge == WARMUP_DURATION
Aged(t) == IF now - (t - ElapseMs) > MaxAge THEN now - MaxAge ELSE t - ElapseMs

Elapse ==
    /\ full' = [FullBegin("none") EXCEPT !.stateStartTime = Aged(@),
                                           !.stateTimer = Aged(@)]
    /\ full' # full
    /\ UNCHANGED <<calibrationInProgress, currentState, currentProgress, stateStartTime,
          sampleCount, accelSamples, gyroSamples, calibData, flatAccelMean,
          sideAccelMean, stableStartTime, deviceConnected, now, lastOp, repeated,
          lastResult, notified, shown, samplesRead, stored, released, entered,
          fresh, staleAveraged, stillSince, reading, restarted, nullDeref,
          flatGyroWindow, corrected, command, mainLoop, threads>>

NextFull ==
    FullStart \/ FullStartFull \/ FullStartQuick \/ FullProcess \/ FullAbort \/ Elapse

SpecFull == Init /\ [][NextFull]_vars

(***************************************************************************)
(* The main loop (main.cpp, loop()).  One action is one iteration, taken   *)
(* at the time now; the app writes commands and connects or disconnects    *)
(* between iterations.  The display is not modelled: neither the button   *)
(* that wakes it nor the connection status loop() copies to it             *)
(* (lastConnectionCheck, connectionChanged).                               *)
(***************************************************************************)
SENSOR_UPDATE_INTERVAL == 50
LoopDelay == 10                 \* delay(10) after processCalibration()

\* bound: the loop is followed for MaxLoopMs milliseconds after setup()
MaxLoopMs == 60
LoopEnd == SETUP_DELAY + MaxLoopMs

\* SensorPacket{x, y, z, timestamp}, and the characteristic it is notified on
SensorPacket(kind, v, t) == [kind |-> kind, x |-> v.x, y |-> v.y, z |-> v.z,
                             timestamp |-> t]

\* the entry of loop()
Entered(m) ==
    [m EXCEPT !.iteration = 1 - @]

\* the two packets of a tick, from the corrected sample
PacketsOf(data, currentTime) ==
    <<SensorPacket("accel", data.accel, currentTime),
      SensorPacket("gyro", data.gyro, currentTime)>>

\* the send branch of loop(): both notifications, then lastUpdate = currentTime
Sent(m, data, currentTime) ==
    [m EXCEPT !.processCalls = 0,
              !.packets = PacketsOf(data, currentTime),
              !.lastSent = currentTime,
              !.lastUpdate = currentTime]

\* what the IMU gives in an iteration: the device at rest and flat, or moved
\* while on its side
LoopReadings ==
    {[accel |-> Vector3D(0, 0, 1000), gyro |-> Vector3D(300, 0, 0)],
     [accel |-> Vector3D(1000, 0, 0), gyro |-> Vector3D(2500, 0, 0)]}

\* mutant: a run in progress does not keep the loop from the send branch
LoopIteration_FallsThrough ==
    \E r \in LoopReadings :
        LET m == Entered(mainLoop)
            accel == r.accel
            gyro == r.gyro
        IN  /\ UNCHANGED <<deviceConnected, full, threads>>
            /\ IF calibrationInProgress
                   /\ ~(deviceConnected /\ now - m.lastUpdate >= SENSOR_UPDATE_INTERVAL)
               THEN /\ now + LoopDelay <= LoopEnd
                    /\ CommitEngine("process", ProcessCalibration(Begin, accel, gyro))
                    /\ mainLoop' = [m EXCEPT !.processCalls = 1, !.packets = << >>]
                    /\ now' = now + LoopDelay
               ELSE IF deviceConnected /\ now - m.lastUpdate >= SENSOR_UPDATE_INTERVAL
               THEN LET e == CorrectSensorData(Begin, accel, gyro)
                    IN  /\ CommitEngine("correct", e)
                        /\ mainLoop' = Sent(m, e.corrected.result, now)
                        /\ now' = now
               ELSE /\ CommitEngine("loop", Begin)
                    /\ mainLoop' = [m EXCEPT !.processCalls = 0, !.packets = << >>]
                    /\ now' = now

\* loop(): one iteration at currentTime = now
LoopIteration ==
    \E r \in LoopReadings :
        LET m == Entered(mainLoop)
            accel == r.accel
            gyro == r.gyro
        IN  /\ UNCHANGED <<deviceConnected, full, threads>>
            /\ IF calibrationInProgress
               THEN /\ now + LoopDelay <= LoopEnd
                    /\ CommitEngine("process", ProcessCalibration(Begin, accel, gyro))
                    /\ mainLoop' = [m EXCEPT !.processCalls = 1, !.packets = << >>]
                    /\ now' = now + LoopDelay
               ELSE IF deviceConnected /\ now - m.lastUpdate >= SENSOR_UPDATE_INTERVAL
               THEN LET e == CorrectSensorData(Begin, accel, gyro)
                    IN  /\ CommitEngine("correct", e)
                        /\ mainLoop' = Sent(m, e.corrected.result, now)
                        /\ now' = now
               ELSE /\ CommitEngine("loop", Begin)
                    /\ mainLoop' = [m EXCEPT !.processCalls = 0, !.packets = << >>]
                    /\ now' = now

\* the app writes a command while it is connected
ConnectedWrite == deviceConnected /\ Write

\* time passes between two iterations
LoopElapse ==
    /\ \E dt \in {LoopDelay, SENSOR_UPDATE_INTERVAL} :
           /\ now + dt <= LoopEnd
           /\ now' = now + dt
    /\ UNCHANGED <<calibrationInProgress, currentState, currentProgress, stateStartTime,
          sampleCount, accelSamples, gyroSamples, calibData, flatAccelMean,
          sideAccelMean, stableStartTime, deviceConnected, lastOp, repeated,
          lastResult, notified, shown, samplesRead, stored, released, entered,
          fresh, staleAveraged, stillSince, reading, restarted, nullDeref,
          flatGyroWindow, corrected, command, full, mainLoop, threads>>

NextLoop ==
    LoopIteration \/ OnConnect \/ OnDisconnect \/ ConnectedWrite \/ LoopElapse

SpecLoop == Init /\ [][NextLoop]_vars

(***************************************************************************)
(* Two tasks on one engine.  loop() runs in the Arduino loop task and      *)
(* CalibrationCallback::onWrite in the BLE task; the engine has no lock.   *)
(* Each action below is one statement, or a run of statements that touch   *)
(* no shared buffer, of the operation a task is in; threads holds each     *)
(* task's position and the locals of the sampling handler.  A store        *)
(* through a null pointer is undefined: it either halts the device or is   *)
(* lost.                                                                   *)
(***************************************************************************)
SamplingStates == {"QUICK_STATIC_FLAT", "QUICK_STATIC_SIDE"}
Running == threads.loopPc # "halted"

ThreadStep(op, e, t) ==
    /\ CommitEngine(op, e)
    /\ threads' = t
    /\ UNCHANGED <<deviceConnected, now, full, mainLoop>>

\* loop(): if (setupCalibration && setupCalibration->isCalibrationInProgress())
LoopCheck ==
    /\ threads.loopPc = "loop"
    /\ calibrationInProgress
    /\ ThreadStep("process", Begin, [threads EXCEPT !.loopPc = "entered"])

\* processCalibration() up to the first store of a sampling handler, or the
\* whole call when the handler stores nothing
EnterProcess ==
    /\ threads.loopPc = "entered"
    /\ \E accel \in AccelVals, gyro \in GyroVals :
           IF calibrationInProgress /\ currentState \in SamplingStates
                  /\ sampleCount < QUICK_SAMPLES
           THEN LET r == ReadSample(Engine, accel, gyro)
                IN  IF MovementDetected(gyro)
                    THEN ThreadStep("process", RejectWindow(r),
                                    [threads EXCEPT !.loopPc = "loop"])
                    ELSE ThreadStep("process", r,
                                    [threads EXCEPT !.loopPc = "storeAccel",
                                                    !.handler = currentState,
                                                    !.accel = accel,
                                                    !.gyro = gyro])
           ELSE ThreadStep("process", ProcessCalibration(Engine, accel, gyro),
                           [threads EXCEPT !.loopPc = "loop"])

\* buffer[sampleCount] = v
Store(field, v, next) ==
    IF Engine[field] = NullBuffer
    THEN \E outcome \in {"halted", next} :
             ThreadStep("process", [Engine EXCEPT !.nullDeref = TRUE],
                        [threads EXCEPT !.loopPc = outcome])
    ELSE ThreadStep("process", [Engine EXCEPT ![field][sampleCount + 1] = v],
                    [threads EXCEPT !.loopPc = next])

\* accelSamples[sampleCount] = accel
StoreAccel == threads.loopPc = "storeAccel" /\ Store("accelSamples", threads.accel, "storeGyro")

\* gyroSamples[sampleCount] = gyro
StoreGyro == threads.loopPc = "storeGyro" /\ Store("gyroSamples", threads.gyro, "count")

\* sampleCount++ and the progress report of the handler that was entered
CountSample ==
    /\ threads.loopPc = "count"
    /\ LET s == [Engine EXCEPT !.sampleCount = @ + 1, !.stored = @ + 1]
           progress == IF threads.handler = "QUICK_STATIC_FLAT"
                       THEN FlatProgress(s.sampleCount)
                       ELSE SideProgress(s.sampleCount)
       IN  ThreadStep("process", ReportEvery(s, progress),
                      [threads EXCEPT !.loopPc = "loop"])

\* onWrite up to the first statement of the engine operation it calls that
\* touches a buffer; a byte that is no command calls nothing
Receive ==
    /\ threads.writerPc = "idle"
    /\ Running
    /\ \E cmd \in CommandBytes :
           LET e == [Begin EXCEPT !.command = cmd]
           IN  CASE cmd = START_QUICK ->
                      IF calibrationInProgress
                      THEN ThreadStep("start", [e EXCEPT !.lastResult = "INVALID_STATE"],
                                      threads)
                      ELSE ThreadStep("start", e,
                                      [threads EXCEPT !.writerPc = "allocAccel"])
                 [] cmd = ABORT ->
                      IF ~calibrationInProgress
                      THEN ThreadStep("abort", e, threads)
                      ELSE ThreadStep("abort", e,
                                      [threads EXCEPT !.writerPc = "resetAccel"])
                 [] OTHER -> ThreadStep("none", e, threads)

\* buffer.reset(new Vector3D[QUICK_SAMPLES]) of startQuickCalibration
Allocate(field, next) ==
    \E a \in AllocOutcomes :
        IF a = "throw"
        THEN ThreadStep("start", [Engine EXCEPT !.lastResult = "CALIBRATION_FAILED"],
                        [threads EXCEPT !.writerPc = "idle"])
        ELSE ThreadStep("start", ResetBuffer(Engine, field, Allocated(a)),
                        [threads EXCEPT !.writerPc = next])

StartAllocAccel ==
    threads.writerPc = "allocAccel" /\ Running /\ Allocate("accelSamples", "allocGyro")

StartAllocGyro ==
    threads.writerPc = "allocGyro" /\ Running /\ Allocate("gyroSamples", "setFlag")

\* if (!accelSamples || !gyroSamples) return MEMORY_ERROR;
\* calibrationInProgress = true
StartSetFlag ==
    /\ threads.writerPc = "setFlag"
    /\ Running
    /\ IF accelSamples = NullBuffer \/ gyroSamples = NullBuffer
       THEN ThreadStep("start", [Engine EXCEPT !.lastResult = "MEMORY_ERROR"],
                       [threads EXCEPT !.writerPc = "idle"])
       ELSE ThreadStep("start", [Engine EXCEPT !.calibrationInProgress = TRUE],
                       [threads EXCEPT !.writerPc = "startFinish"])

\* calibData.isValid = false; transitionTo(QUICK_STATIC_FLAT); return NONE
StartFinish ==
    /\ threads.writerPc = "startFinish"
    /\ Running
    /\ ThreadStep("start",
                  [TransitionTo([Engine EXCEPT !.calibData.isValid = FALSE,
                                               !.restarted = FALSE],
                                "QUICK_STATIC_FLAT")
                     EXCEPT !.lastResult = "NONE"],
                  [threads EXCEPT !.writerPc = "idle"])

\* accelSamples.reset() of abortCalibration
AbortResetAccel ==
    /\ threads.writerPc = "resetAccel"
    /\ Running
    /\ ThreadStep("abort", ResetBuffer(Engine, "accelSamples", NullBuffer),
                  [threads EXCEPT !.writerPc = "resetGyro"])

\* gyroSamples.reset()
AbortResetGyro ==
    /\ threads.writerPc = "resetGyro"
    /\ Running
    /\ ThreadStep("abort", ResetBuffer(Engine, "gyroSamples", NullBuffer),
                  [threads EXCEPT !.writerPc = "abortFinish"])

\* calibrationInProgress = false; calibData.isValid = false;
\* transitionTo(FAILED)
AbortFinish ==
    /\ threads.writerPc = "abortFinish"
    /\ Running
    /\ ThreadStep("abort",
                  TransitionTo([Engine EXCEPT !.calibrationInProgress = FALSE,
                                              !.calibData.isValid = FALSE],
                               "FAILED"),
                  [threads EXCEPT !.writerPc = "idle"])

LoopTask ==
    LoopCheck \/ EnterProcess \/ StoreAccel \/ StoreGyro \/ CountSample

WriteTask ==
    Receive \/ StartAllocAccel \/ StartAllocGyro \/ StartSetFlag \/ StartFinish
        \/ AbortResetAccel \/ AbortResetGyro \/ AbortFinish

NextThreads == LoopTask \/ WriteTask

SpecThreads == InitCommand /\ [][NextThreads]_vars

(***************************************************************************)
(* Vocabulary of the claims                                                *)
(***************************************************************************)
\* A step that is one call of the named public operation (time and the
\* connection are changed by the environment's steps only).
OpStep(op) == lastOp' = op /\ now' = now /\ deviceConnected' = deviceConnected

Terminal == {"QUICK_COMPLETE", "FAILED"}
Phases == {"QUICK_STATIC_FLAT", "QUICK_WAITING_ROTATION", "QUICK_STABILIZING",
           "QUICK_STATIC_SIDE"}
SamplingPhases == {"QUICK_STATIC_FLAT", "QUICK_STATIC_SIDE"}

\* The last operation evaluated the side window (calculateSidePosition ran).
SideEvaluated == lastOp = "process" /\ entered # << >> /\ entered[1] \in Terminal

\* The thresholds of the claims, stated on the readings themselves.
ScaleOutOfRange(scale) == scale < MIN_SCALE_FACTOR \/ scale > MAX_SCALE_FACTOR
ExceedsTolerance(gyro) ==
    gyro.x * gyro.x + gyro.y * gyro.y + gyro.z * gyro.z
        > MOVEMENT_TOLERANCE * MOVEMENT_TOLERANCE
BelowStillness(gyro) ==
    gyro.x * gyro.x + gyro.y * gyro.y + gyro.z * gyro.z
        < STILLNESS_THRESHOLD * STILLNESS_THRESHOLD
\* the angle between the reading and the z axis exceeds ROTATION_THRESHOLD
RotatedBeyondThreshold(accel) ==
    LET m2 == accel.x * accel.x + accel.y * accel.y + accel.z * accel.z
    IN  m2 > 0 /\ (accel.z <= 0 \/ accel.z * accel.z * Milli < Cos2RotationThreshold * m2)

FieldsUnchanged ==
    UNCHANGED <<calibrationInProgress, currentState, currentProgress, stateStartTime,
                sampleCount, accelSamples, gyroSamples, calibData, flatAccelMean,
                sideAccelMean, stableStartTime>>

(***************************************************************************)
(* C1: when the side window is full and the computed accelScale is outside *)
(* [MIN_SCALE_FACTOR, MAX_SCALE_FACTOR], the processCalibration() call     *)
(* that evaluates it leaves the engine in FAILED with isValid false.       *)
(***************************************************************************)
C1_ScaleOutOfRangeFails ==
    (SideEvaluated /\ ScaleOutOfRange(calibData.accelScale))
        => (currentState = "FAILED" /\ calibData.isValid = FALSE)

(***************************************************************************)
(* C2: between public operations currentState changes only along the       *)
(* documented edges: a terminal state or IDLE to QUICK_STATIC_FLAT by      *)
(* start; each phase to the next one, and QUICK_STATIC_SIDE to             *)
(* QUICK_COMPLETE or FAILED, by process; any state to FAILED by abort.     *)
(***************************************************************************)
DocumentedEdge(from, to, op) ==
    \/ op = "start" /\ from \in {"IDLE", "QUICK_COMPLETE", "FAILED"}
                    /\ to = "QUICK_STATIC_FLAT"
    \/ op = "process" /\ from = "QUICK_STATIC_FLAT" /\ to = "QUICK_WAITING_ROTATION"
    \/ op = "process" /\ from = "QUICK_WAITING_ROTATION" /\ to = "QUICK_STABILIZING"
    \/ op = "process" /\ from = "QUICK_STABILIZING" /\ to = "QUICK_STATIC_SIDE"
    \/ op = "process" /\ from = "QUICK_STATIC_SIDE" /\ to \in Terminal
    \/ op = "abort" /\ to = "FAILED"

C2_DocumentedEdgesOnly ==
    [][currentState' # currentState
          => DocumentedEdge(currentState, currentState', lastOp')]_vars

C2_Witness ==
    /\ currentState = "QUICK_COMPLETE" /\ lastOp = "process" /\ entered # << >>
    /\ calibData.isValid

(***************************************************************************)
(* C3: in every run, QUICK_STABILIZING -> QUICK_STATIC_SIDE fires only     *)
(* after the gyro has been below STILLNESS_THRESHOLD on consecutive        *)
(* processCalibration() calls of the current STABILIZING phase spanning    *)
(* more than STABLE_DURATION ms; a reading at or above the threshold       *)
(* resets the stability timer to un-started.                               *)
(***************************************************************************)
C3_StillnessDebounced ==
    [][/\ (currentState = "QUICK_STABILIZING" /\ currentState' = "QUICK_STATIC_SIDE")
            => (stillSince # -1 /\ now - stillSince > STABLE_DURATION)
       /\ (currentState = "QUICK_STABILIZING" /\ calibrationInProgress
              /\ OpStep("process") /\ reading'.valid /\ ~BelowStillness(reading'.gyro))
            => stableStartTime' = 0]_vars

(***************************************************************************)
(* C4: in QUICK_STATIC_FLAT and QUICK_STATIC_SIDE a processCalibration()   *)
(* call that reads a sample with gyro magnitude > MOVEMENT_TOLERANCE at a  *)
(* position k < QUICK_SAMPLES sets sampleCount to 0, does not store the    *)
(* sample and leaves currentState unchanged.                               *)
(***************************************************************************)
C4_MovementRestartsWindow ==
    [][(/\ OpStep("process")
        /\ calibrationInProgress
        /\ currentState \in SamplingPhases
        /\ sampleCount < QUICK_SAMPLES
        /\ reading'.valid
        /\ ExceedsTolerance(reading'.gyro))
       => (/\ sampleCount' = 0
           /\ stored' = 0
           /\ accelSamples' = accelSamples
           /\ gyroSamples' = gyroSamples
           /\ currentState' = currentState)]_vars

\* a movement at position k = 1 of the side phase: one side sample was
\* already in the window
C4_Witness ==
    /\ currentState = "QUICK_STATIC_SIDE" /\ lastOp = "process"
    /\ reading.valid /\ ExceedsTolerance(reading.gyro)
    /\ sampleCount = 0 /\ restarted
    /\ accelSamples[1] = Vector3D(1000, 0, 0) /\ flatAccelMean.z = 1000

(***************************************************************************)
(* C5: every sample that contributes to a phase mean was collected in that *)
(* same phase after the phase's most recent movement rejection: no mean    *)
(* ever reads a slot left from a rejected window, an earlier phase or an   *)
(* earlier run.                                                            *)
(***************************************************************************)
C5_OnlyFreshSamplesAveraged == ~staleAveraged

\* a run completed although one of its windows had been restarted
C5_Witness ==
    /\ currentState = "QUICK_COMPLETE" /\ calibData.isValid /\ restarted
    /\ SideEvaluated /\ ~staleAveraged

(***************************************************************************)
(* C6: abortCalibration() called while a run is in progress, in any of the *)
(* four phases, leaves currentState FAILED, calibrationInProgress false,   *)
(* calibData.isValid false and both sample buffers released.               *)
(***************************************************************************)
C6_AbortInProgress ==
    [][(OpStep("abort") /\ calibrationInProgress /\ currentState \in Phases)
       => (/\ currentState' = "FAILED"
           /\ calibrationInProgress' = FALSE
           /\ calibData'.isValid = FALSE
           /\ accelSamples' = NullBuffer
           /\ gyroSamples' = NullBuffer
           /\ released' = 2)]_vars

C6_Witness ==
    /\ lastOp = "abort" /\ released = 2 /\ entered = <<"FAILED">>
    /\ currentState = "FAILED" /\ ~calibrationInProgress

(***************************************************************************)
(* C7 as claimed: from any reachable state, after each of two successive   *)
(* abortCalibration() calls currentState is FAILED, and the second call    *)
(* releases no buffer and emits no ProgressRecord.                         *)
(***************************************************************************)
C7_AbortAlwaysEndsFailed ==
    lastOp = "abort"
        => (currentState = "FAILED"
            /\ (repeated => (released = 0 /\ notified = << >>)))

(***************************************************************************)
(* C7 as amended: an abortCalibration() call made while a run is in        *)
(* progress leaves FAILED, and so does the abort that follows it; an abort *)
(* made when no run is in progress (in IDLE, after a finished run, or as   *)
(* the second of two successive aborts) is a no-op: it leaves currentState *)
(* as it was, releases no buffer, emits no ProgressRecord and changes no   *)
(* field.                                                                  *)
(***************************************************************************)
C7_AbortIdempotent ==
    [][OpStep("abort")
       => (/\ calibrationInProgress => currentState' = "FAILED"
           /\ (lastOp = "abort" \/ ~calibrationInProgress)
                 => (FieldsUnchanged /\ released' = 0 /\ notified' = << >>
                       /\ shown' = << >>)
           /\ (lastOp = "abort" /\ currentState = "FAILED")
                 => currentState' = "FAILED")]_vars

C7_Witness ==
    /\ lastOp = "abort" /\ repeated /\ currentState = "FAILED"
    /\ released = 0 /\ notified = << >>

(***************************************************************************)
(* C8: whenever currentState is QUICK_COMPLETE or FAILED,                  *)
(* processCalibration() changes no calibration data and no state, and a    *)
(* startQuickCalibration() call whose allocations succeed returns NONE and *)
(* puts the engine in QUICK_STATIC_FLAT with sampleCount 0.                *)
(***************************************************************************)
AllocationFailed(result) == result \in {"MEMORY_ERROR", "CALIBRATION_FAILED"}

C8_TerminalRestartable ==
    [][/\ (currentState \in Terminal /\ OpStep("process"))
            => (calibData' = calibData /\ currentState' = currentState
                  /\ sampleCount' = sampleCount)
       /\ (currentState \in Terminal /\ OpStep("start")
              /\ ~AllocationFailed(lastResult'))
            => (lastResult' = "NONE" /\ currentState' = "QUICK_STATIC_FLAT"
                  /\ sampleCount' = 0)]_vars

(***************************************************************************)
(* C9 as claimed: a run without movement, with a recognized rotation,      *)
(* lasting stillness and a scale in range goes through the four phases in  *)
(* order and ends in QUICK_COMPLETE with isValid true; the flat phase has  *)
(* reached QUICK_WAITING_ROTATION once QUICK_SAMPLES samples have been     *)
(* fed (the engine is never in the flat phase with a full window).         *)
(***************************************************************************)
C9_FlatLeavesWithLastSample ==
    /\ (calibrationInProgress /\ currentState = "QUICK_STATIC_FLAT")
          => sampleCount < QUICK_SAMPLES
    /\ (SideEvaluated /\ ~ScaleOutOfRange(calibData.accelScale))
          => (currentState = "QUICK_COMPLETE" /\ calibData.isValid)

(***************************************************************************)
(* C9 as amended: in a run in progress every processCalibration() call     *)
(* advances as follows.  In a sampling phase with fewer than QUICK_SAMPLES *)
(* samples a reading within MOVEMENT_TOLERANCE is stored and the phase     *)
(* stays (also when it fills the window); with QUICK_SAMPLES samples       *)
(* stored, the next call, which reads no sample, leaves QUICK_STATIC_FLAT  *)
(* for QUICK_WAITING_ROTATION; a rotation beyond ROTATION_THRESHOLD leads  *)
(* to QUICK_STABILIZING; a still reading after stillness of more than      *)
(* STABLE_DURATION leads to QUICK_STATIC_SIDE; a full side window with a   *)
(* scale in range ends in QUICK_COMPLETE with isValid true.                *)
(***************************************************************************)
C9_HappyPath ==
    [][(OpStep("process") /\ calibrationInProgress)
       => (/\ (currentState \in SamplingPhases /\ sampleCount < QUICK_SAMPLES
                 /\ reading'.valid /\ ~ExceedsTolerance(reading'.gyro))
                => (sampleCount' = sampleCount + 1 /\ currentState' = currentState
                      /\ accelSamples'[sampleCount'] = reading'.accel)
           /\ (currentState = "QUICK_STATIC_FLAT" /\ sampleCount = QUICK_SAMPLES)
                => (currentState' = "QUICK_WAITING_ROTATION" /\ samplesRead' = 0)
           /\ (currentState = "QUICK_WAITING_ROTATION"
                 /\ reading'.valid /\ RotatedBeyondThreshold(reading'.accel))
                => currentState' = "QUICK_STABILIZING"
           /\ (currentState = "QUICK_STABILIZING" /\ reading'.valid
                 /\ BelowStillness(reading'.gyro)
                 /\ stillSince # -1 /\ now - stillSince > STABLE_DURATION)
                => currentState' = "QUICK_STATIC_SIDE"
           /\ (currentState = "QUICK_STATIC_SIDE" /\ sampleCount = QUICK_SAMPLES
                 /\ ~ScaleOutOfRange(calibData'.accelScale))
                => (currentState' = "QUICK_COMPLETE" /\ calibData'.isValid))]_vars

\* a run without any movement that ended valid
C9_Witness ==
    /\ currentState = "QUICK_COMPLETE" /\ calibData.isValid /\ ~restarted
    /\ SideEvaluated /\ calibData.accelScale = Milli

(***************************************************************************)
(* C10: startQuickCalibration() called while calibrationInProgress is true *)
(* returns INVALID_STATE and changes nothing: state, sample count,         *)
(* buffers, calibData and currentProgress are unchanged and no             *)
(* ProgressRecord is emitted.                                              *)
(***************************************************************************)
C10_StartWhileRunningRejected ==
    [][(OpStep("start") /\ calibrationInProgress)
       => (/\ lastResult' = "INVALID_STATE"
           /\ FieldsUnchanged
           /\ notified' = << >>
           /\ released' = 0)]_vars

C10_Witness ==
    /\ lastOp = "start" /\ lastResult = "INVALID_STATE"
    /\ currentState = "QUICK_STATIC_SIDE" /\ sampleCount = 1

(***************************************************************************)
(* C11: when buffer allocation fails inside startQuickCalibration() (the   *)
(* call returns MEMORY_ERROR or CALIBRATION_FAILED), the engine is in      *)
(* FAILED when the call returns, no sampling phase has been entered and    *)
(* calibrationInProgress is false.                                         *)
(***************************************************************************)
C11_AllocationFailureFails ==
    (lastOp = "start" /\ AllocationFailed(lastResult))
        => (/\ currentState = "FAILED"
            /\ ~calibrationInProgress
            /\ \A i \in 1..Len(entered) : entered[i] \notin Phases)

(***************************************************************************)
(* C12: the committed result calibData (accelBias, gyroBias, accelScale,   *)
(* isValid) is written only by the processCalibration() call that          *)
(* completes a run successfully; every other step, and so every run that   *)
(* is aborted or fails validation, leaves each of its fields as it was.    *)
(***************************************************************************)
C12_ResultWrittenOnlyOnSuccess ==
    [][calibData' # calibData
          => (/\ lastOp' = "process"
              /\ currentState' = "QUICK_COMPLETE"
              /\ calibData'.isValid)]_vars

(***************************************************************************)
(* Vocabulary of the claims about the data path (checked under SpecData)   *)
(***************************************************************************)
Axes == {"x", "y", "z"}

\* correctSensorData() has just returned, for the calibData of this state
Corrected == lastOp = "correct" /\ corrected.called

RECURSIVE SumOnAxis(_, _, _)
SumOnAxis(window, axis, n) ==
    IF n = 0 THEN 0 ELSE SumOnAxis(window, axis, n - 1) + window[n][axis]

\* the component-wise arithmetic mean of a full window
WindowMean(window) ==
    [axis \in Axes |-> FDiv(SumOnAxis(window, axis, QUICK_SAMPLES), QUICK_SAMPLES)]

(***************************************************************************)
(* C13: correctSensorData(rawAccel, rawGyro) with calibData.isValid false  *)
(* returns accel = rawAccel, gyro = rawGyro and isValid false, for every   *)
(* input (the zero vector and large vectors included) and in every state   *)
(* of the engine.                                                          *)
(***************************************************************************)
C13_InvalidIsPassThrough ==
    (Corrected /\ ~calibData.isValid)
        => (/\ corrected.result.accel = corrected.rawAccel
            /\ corrected.result.gyro = corrected.rawGyro
            /\ corrected.result.isValid = FALSE)

\* a large reading passed through during a run, with a gyro bias already
\* written by the flat phase
C13_Witness ==
    /\ Corrected /\ ~calibData.isValid
    /\ currentState = "QUICK_STABILIZING"
    /\ calibData.gyroBias # ZeroVector
    /\ corrected.rawAccel.x = LargeRaw
    /\ corrected.result.gyro = corrected.rawGyro

(***************************************************************************)
(* C14: correctSensorData with calibData.isValid true: on every axis the   *)
(* gyro output is rawGyro - gyroBias, except that it is exactly 0 when the *)
(* absolute value of that difference is below GYRO_DEADBAND; no gyro       *)
(* output is nonzero with an absolute value below GYRO_DEADBAND.           *)
(***************************************************************************)
C14_GyroDeadband ==
    (Corrected /\ calibData.isValid)
        => \A axis \in Axes :
             LET diff == corrected.rawGyro[axis] - calibData.gyroBias[axis]
                 out == corrected.result.gyro[axis]
             IN  /\ Abs(diff) < GYRO_DEADBAND => out = 0
                 /\ Abs(diff) >= GYRO_DEADBAND => out = diff
                 /\ ~(out # 0 /\ Abs(out) < GYRO_DEADBAND)

\* one axis snapped to 0 from a nonzero residual, one axis exactly at the
\* deadband and kept
C14_Witness ==
    /\ Corrected /\ calibData.isValid
    /\ \E axis \in Axes :
          LET diff == corrected.rawGyro[axis] - calibData.gyroBias[axis]
          IN  diff # 0 /\ Abs(diff) < GYRO_DEADBAND /\ corrected.result.gyro[axis] = 0
    /\ \E axis \in Axes :
          LET diff == corrected.rawGyro[axis] - calibData.gyroBias[axis]
          IN  Abs(diff) = GYRO_DEADBAND /\ corrected.result.gyro[axis] = diff

(***************************************************************************)
(* C15: correctSensorData with calibData.isValid true returns, on every    *)
(* axis, accel = rawAccel * accelScale - accelBias, and isValid true.      *)
(***************************************************************************)
C15_AccelScaledAndShifted ==
    (Corrected /\ calibData.isValid)
        => (/\ corrected.result.isValid = TRUE
            /\ \A axis \in Axes :
                 corrected.result.accel[axis] =
                     FDiv(corrected.rawAccel[axis] * calibData.accelScale, Milli)
                         - calibData.accelBias[axis])

\* a scale other than 1.0 and a nonzero bias applied to a nonzero reading
C15_Witness ==
    /\ Corrected /\ calibData.isValid /\ corrected.result.isValid
    /\ calibData.accelScale # Milli
    /\ calibData.accelBias.x # 0
    /\ corrected.rawAccel.x = 1000
    /\ corrected.result.accel.x # corrected.rawAccel.x

(***************************************************************************)
(* C16: after a successful run gyroBias is the mean of the flat phase's    *)
(* gyro samples, accelScale = GRAVITY_MAGNITUDE / ((|sideMean.x| +         *)
(* |flatMean.z|) / 2) and accelBias = (flatMean.x * scale, (flatMean.y +   *)
(* sideMean.y) * scale / 2, sideMean.z * scale); a flat mean (0,0,1.02)    *)
(* and a side mean (0.98,0,0) give the scale 1.0.                          *)
(***************************************************************************)
C16_TwoPositionComputation ==
    (SideEvaluated /\ calibData.isValid)
        => LET scale == calibData.accelScale
               flat == flatAccelMean
               side == sideAccelMean
           IN  /\ calibData.gyroBias = WindowMean(flatGyroWindow)
               /\ scale = (GRAVITY_MAGNITUDE * Milli)
                              \div ((Abs(side.x) + Abs(flat.z)) \div 2)
               /\ calibData.accelBias.x = FDiv(flat.x * scale, Milli)
               /\ calibData.accelBias.y = FDiv(FDiv((flat.y + side.y) * scale, Milli), 2)
               /\ calibData.accelBias.z = FDiv(side.z * scale, Milli)
               /\ (flat = Vector3D(0, 0, 1020) /\ side = Vector3D(980, 0, 0))
                     => scale = Milli

\* the example of the claim, after a flat phase whose gyro readings differed
C16_Witness ==
    /\ SideEvaluated /\ calibData.isValid /\ currentState = "QUICK_COMPLETE"
    /\ flatAccelMean = Vector3D(0, 0, 1020) /\ sideAccelMean = Vector3D(980, 0, 0)
    /\ calibData.accelScale = Milli
    /\ flatGyroWindow[1] # flatGyroWindow[QUICK_SAMPLES]
    /\ calibData.gyroBias # ZeroVector

(***************************************************************************)
(* Vocabulary of the claims about reporting and the sample window          *)
(***************************************************************************)
\* a step that is one call of a public operation of the engine
EngineStep == OpStep("start") \/ OpStep("process") \/ OpStep("abort")

\* the percent complete of the claims, for a sample count in a phase
PercentOf(state, count) ==
    IF state = "QUICK_STATIC_FLAT"
    THEN (count * 50) \div QUICK_SAMPLES
    ELSE 50 + (count * 50) \div QUICK_SAMPLES

\* a step in which a sample is collected that is due for a progress report
ReportDue ==
    /\ OpStep("process") /\ calibrationInProgress /\ currentState \in SamplingPhases
    /\ stored' = 1
    /\ sampleCount' % PROGRESS_INTERVAL = 0

(***************************************************************************)
(* C17: every transitionTo() call sets sampleCount to 0, records the phase *)
(* start time, emits one ProgressRecord carrying the new state and asks    *)
(* the display to show 0%: an operation that made n transitions has        *)
(* emitted exactly n records, the i-th with the i-th state entered, and    *)
(* n requests to show 0, and ends with sampleCount 0 and the start time    *)
(* of the call.                                                            *)
(***************************************************************************)
C17_TransitionEffects ==
    [][(EngineStep /\ entered' # << >>)
       => (/\ sampleCount' = 0
           /\ stateStartTime' = now
           /\ currentState' = entered'[Len(entered')]
           /\ Len(notified') = Len(entered')
           /\ \A i \in 1..Len(entered') : notified'[i].state = entered'[i]
           /\ shown' = [i \in 1..Len(entered') |-> 0])]_vars

\* the transition out of a full flat window, later than the engine's start
C17_Witness ==
    /\ lastOp = "process" /\ entered = <<"QUICK_WAITING_ROTATION">>
    /\ sampleCount = 0 /\ stateStartTime = now /\ now > SETUP_DELAY
    /\ Len(notified) = 1 /\ notified[1].state = "QUICK_WAITING_ROTATION"
    /\ shown = <<0>>

(***************************************************************************)
(* C18 as claimed: on every sample collected in a sampling phase whose     *)
(* count is a multiple of the reporting interval, a ProgressRecord is      *)
(* emitted whose percent is sampleCount*50/QUICK_SAMPLES in the flat phase *)
(* and 50 + sampleCount*50/QUICK_SAMPLES in the side phase, and the        *)
(* percent never exceeds 100.                                              *)
(***************************************************************************)
C18_ProgressAlwaysEmitted ==
    [][ReportDue
       => (/\ notified' = <<[state |-> currentState,
                             progress |-> PercentOf(currentState, sampleCount')]>>
           /\ PercentOf(currentState, sampleCount') <= 100)]_vars

(***************************************************************************)
(* C18 as amended: on such a sample the display is asked to show the       *)
(* percent and currentProgress takes it; the ProgressRecord with that      *)
(* percent is emitted when a device is connected, and no record is emitted *)
(* when none is.  The percent is within 0..50 in the flat phase, within    *)
(* 50..100 in the side phase.                                              *)
(***************************************************************************)
C18_ProgressEmittedWhenConnected ==
    [][ReportDue
       => LET percent == PercentOf(currentState, sampleCount')
          IN  /\ shown' = <<percent>>
              /\ currentProgress' = percent
              /\ deviceConnected
                    => notified' = <<[state |-> currentState, progress |-> percent]>>
              /\ ~deviceConnected => notified' = << >>
              /\ currentState = "QUICK_STATIC_FLAT" => (percent >= 0 /\ percent <= 50)
              /\ currentState = "QUICK_STATIC_SIDE" => (percent >= 50 /\ percent <= 100)]_vars

\* a report inside the side window, received by a connected device
C18_Witness ==
    /\ lastOp = "process" /\ stored = 1 /\ deviceConnected
    /\ currentState = "QUICK_STATIC_SIDE"
    /\ sampleCount % PROGRESS_INTERVAL = 0
    /\ notified = <<[state |-> "QUICK_STATIC_SIDE",
                     progress |-> 50 + (sampleCount * 50) \div QUICK_SAMPLES]>>

(***************************************************************************)
(* C19: sampleCount <= QUICK_SAMPLES in every reachable state; every       *)
(* buffer write is at an index below QUICK_SAMPLES (the index is the       *)
(* sampleCount before the call); a phase mean is computed only when        *)
(* sampleCount = QUICK_SAMPLES, over slots all written in that window.     *)
(***************************************************************************)
C19_WindowInvariant ==
    [][/\ sampleCount <= QUICK_SAMPLES
       /\ sampleCount' <= QUICK_SAMPLES
       /\ (OpStep("process") /\ stored' > 0) => sampleCount < QUICK_SAMPLES
       /\ (OpStep("process") /\ calibrationInProgress
              /\ currentState \in SamplingPhases /\ entered' # << >>)
            => (sampleCount = QUICK_SAMPLES /\ ~staleAveraged')]_vars

\* the flat mean taken of a full window of equal readings
C19_Witness ==
    /\ lastOp = "process" /\ entered = <<"QUICK_WAITING_ROTATION">>
    /\ accelSamples # NullBuffer
    /\ \A i \in 1..QUICK_SAMPLES : accelSamples[i] = flatAccelMean
    /\ flatAccelMean # ZeroVector
    /\ ~staleAveraged

(***************************************************************************)
(* C20: a processCalibration() call reads at most one sample pair and      *)
(* stores at most one sample, and a call that stores a sample does not     *)
(* change currentState.                                                    *)
(***************************************************************************)
C20_BoundedWork ==
    [][OpStep("process")
       => (/\ samplesRead' <= 1
           /\ stored' <= 1
           /\ stored' >= 1 => currentState' = currentState)]_vars

\* the call that stored the last sample of the flat window
C20_Witness ==
    /\ lastOp = "process" /\ samplesRead = 1 /\ stored = 1
    /\ currentState = "QUICK_STATIC_FLAT" /\ sampleCount = QUICK_SAMPLES
    /\ calibrationInProgress

(***************************************************************************)
(* C21: after abortCalibration() has returned no run is in progress, and   *)
(* as long as none is, every processCalibration() call reads no sample and *)
(* leaves currentState, sampleCount and calibData unchanged; only          *)
(* startQuickCalibration() puts a run in progress again.                   *)
(***************************************************************************)
C21_AbortTakesEffectImmediately ==
    [][/\ OpStep("abort") => ~calibrationInProgress'
       /\ (OpStep("process") /\ ~calibrationInProgress)
            => (/\ samplesRead' = 0
                /\ currentState' = currentState
                /\ sampleCount' = sampleCount
                /\ calibData' = calibData
                /\ ~calibrationInProgress')
       /\ (~calibrationInProgress /\ calibrationInProgress') => lastOp' = "start"]_vars

\* a process call after the abort of a run whose flat phase had finished
C21_Witness ==
    /\ lastOp = "process" /\ currentState = "FAILED" /\ ~calibrationInProgress
    /\ accelSamples = NullBuffer /\ gyroSamples = NullBuffer
    /\ flatAccelMean # ZeroVector /\ sideAccelMean = ZeroVector
    /\ samplesRead = 0 /\ entered = << >>

(***************************************************************************)
(* C22: QUICK_WAITING_ROTATION has no timeout: the engine leaves it only   *)
(* by a processCalibration() call whose sample is rotated beyond           *)
(* ROTATION_THRESHOLD (to QUICK_STABILIZING) or by abortCalibration() (to  *)
(* FAILED); the passing of time and samples within the threshold leave it  *)
(* there.                                                                  *)
(***************************************************************************)
C22_WaitingRotationHasNoTimeout ==
    [][/\ (currentState = "QUICK_WAITING_ROTATION"
              /\ currentState' # "QUICK_WAITING_ROTATION")
            => \/ (/\ lastOp' = "process" /\ reading'.valid
                   /\ RotatedBeyondThreshold(reading'.accel)
                   /\ currentState' = "QUICK_STABILIZING")
               \/ (lastOp' = "abort" /\ currentState' = "FAILED")
       /\ (currentState = "QUICK_WAITING_ROTATION" /\ calibrationInProgress
              /\ OpStep("process") /\ reading'.valid
              /\ ~RotatedBeyondThreshold(reading'.accel))
            => (currentState' = "QUICK_WAITING_ROTATION" /\ calibrationInProgress')]_vars

\* still waiting, on an unrotated sample, longer than any duration of the engine
C22_Witness ==
    /\ currentState = "QUICK_WAITING_ROTATION" /\ calibrationInProgress
    /\ lastOp = "process" /\ reading.valid /\ ~RotatedBeyondThreshold(reading.accel)
    /\ now - stateStartTime > STABLE_DURATION

(***************************************************************************)
(* Vocabulary of the claims about the records sent to the app              *)
(***************************************************************************)
RECURSIVE CountState(_, _)
\* the number of records of a sequence that carry the given state
CountState(records, state) ==
    IF records = << >> THEN 0
    ELSE (IF Head(records).state = state THEN 1 ELSE 0)
             + CountState(Tail(records), state)

\* the call evaluates a full side window and finds the scale out of range
ValidationFails ==
    /\ OpStep("process") /\ calibrationInProgress
    /\ currentState = "QUICK_STATIC_SIDE" /\ sampleCount = QUICK_SAMPLES
    /\ ScaleOutOfRange(calibData'.accelScale)

(***************************************************************************)
(* C24: each unrecoverable failure of a run is reported exactly once as a  *)
(* ProgressRecord with state FAILED: the abortCalibration() call that ends *)
(* a run and the processCalibration() call whose validation fails each     *)
(* emit exactly one such record, and no other call emits any; no failure   *)
(* leaves processCalibration() as an exception or an error value.          *)
(***************************************************************************)
C24_FailureReportedOnce ==
    [][EngineStep
       => (/\ (OpStep("abort") /\ calibrationInProgress)
                => CountState(notified', "FAILED") = 1
           /\ ValidationFails => CountState(notified', "FAILED") = 1
           /\ ~(OpStep("abort") /\ calibrationInProgress) /\ ~ValidationFails
                => CountState(notified', "FAILED") = 0
           /\ OpStep("process") => (lastResult' = "-" /\ ~nullDeref'))]_vars

\* a validation failure has just been reported
C24_Witness ==
    /\ SideEvaluated /\ ScaleOutOfRange(calibData.accelScale)
    /\ CountState(notified, "FAILED") = 1
    /\ ~calibData.isValid

(***************************************************************************)
(* C28: once a run has completed successfully (currentState is             *)
(* QUICK_COMPLETE and calibData.isValid is true) abortCalibration() is a   *)
(* no-op: the state stays QUICK_COMPLETE and isValid stays true, whether   *)
(* or not processCalibration() has been called since the completion.       *)
(***************************************************************************)
C28_AbortAfterCompletionIsNoOp ==
    [][(OpStep("abort") /\ currentState = "QUICK_COMPLETE" /\ calibData.isValid)
       => (currentState' = "QUICK_COMPLETE" /\ calibData'.isValid)]_vars

(***************************************************************************)
(* C29: a ProgressRecord with state QUICK_COMPLETE is emitted only by a    *)
(* run that ends with calibData.isValid true; a run whose scale validation *)
(* failed sends none.                                                      *)
(***************************************************************************)
C29_CompleteReportedOnlyWhenValid ==
    CountState(notified, "QUICK_COMPLETE") > 0 => calibData.isValid

(***************************************************************************)
(* C30: the ProgressRecord emitted on entering QUICK_STATIC_FLAT at the    *)
(* start of a run reports progress 0, in every run.                        *)
(***************************************************************************)
C30_RunStartsAtZeroProgress ==
    (lastOp = "start" /\ lastResult = "NONE")
        => notified = <<[state |-> "QUICK_STATIC_FLAT", progress |-> 0]>>

(***************************************************************************)
(* C23: a command byte other than START_QUICK (1) or ABORT (2) written to  *)
(* the calibration characteristic is ignored: no engine operation is       *)
(* invoked, and the state, the in-progress flag, the calibration data and  *)
(* every other field of the engine are unchanged, nothing is sent.         *)
(***************************************************************************)
\* a step that is one write to the calibration characteristic
WriteStep == command' # NoCommand /\ now' = now /\ deviceConnected' = deviceConnected

C23_UnknownCommandIgnored ==
    [][(WriteStep /\ command' # 1 /\ command' # 2)
       => (/\ lastOp' = "none"
           /\ FieldsUnchanged
           /\ lastResult' = "-"
           /\ entered' = << >> /\ notified' = << >> /\ shown' = << >>
           /\ released' = 0)]_vars

\* an unknown byte written in the middle of the side window
C23_Witness ==
    /\ command # NoCommand /\ command # 1 /\ command # 2
    /\ lastOp = "none"
    /\ currentState = "QUICK_STATIC_SIDE" /\ calibrationInProgress
    /\ sampleCount = 1 /\ accelSamples # NullBuffer

(***************************************************************************)
(* Vocabulary of the claims about the full engine                          *)
(***************************************************************************)
FullStartOps == {"startCalibration", "startFullCalibration", "startQuickCalibration"}
FullStartStep == full'.lastOp \in FullStartOps
FullProcessStep == full'.lastOp = "processCalibration" /\ full.calibrationInProgress
FullTerminal == {"COMPLETED", "QUICK_COMPLETE", "FAILED"}
FullSamplingPhases ==
    {"BIAS_ESTIMATION", "POSITION_Z_UP", "POSITION_Z_DOWN", "POSITION_Y_UP",
     "POSITION_Y_DOWN", "POSITION_X_UP", "POSITION_X_DOWN", "QUICK_STATIC"}
\* a start that returned at its guard entered no state and reported nothing
Refused == full'.notified = << >>
\* the gyro magnitude is above the movement tolerance (200 units)
FullExceedsTolerance(gyro) == MagnitudeSq(gyro) > 2000 * 2000
\* the spread of a full series of temperature readings is above 0.5 C
SeriesUnstable(history) ==
    /\ Len(history) >= TEMP_CHECK_SAMPLES
    /\ \E i, j \in 1..Len(history) : history[i] - history[j] > 5

(***************************************************************************)
(* C25: full engine: in a terminal state (COMPLETED, QUICK_COMPLETE or     *)
(* FAILED) the run is no longer in progress, so a start called there is    *)
(* not refused: it begins a new run without an abort first.                *)
(***************************************************************************)
C25_TerminalRestartsWithoutAbort ==
    [][(FullStartStep /\ full.currentState \in FullTerminal) => ~Refused]_vars

(***************************************************************************)
(* C26: full engine: in every sampling phase (BIAS_ESTIMATION, the six     *)
(* position phases, QUICK_STATIC) a sample whose gyro magnitude exceeds    *)
(* the movement tolerance discards the window: sampleCount is 0 again and  *)
(* the state is the same.                                                  *)
(***************************************************************************)
C26_MovementDiscardsWindow ==
    [][(FullProcessStep /\ full.currentState \in FullSamplingPhases
            /\ full'.reading.sampled /\ FullExceedsTolerance(full'.reading.gyro))
        => (full'.sampleCount = 0 /\ full'.currentState = full.currentState)]_vars

(***************************************************************************)
(* C27: full engine: a temperature that is not stable is recoverable; the  *)
(* processCalibration() call that finds it never moves to FAILED.          *)
(***************************************************************************)
C27_UnstableTemperatureRecoverable ==
    [][(FullProcessStep /\ full'.reading.measured
            /\ \/ /\ full.currentState = "TEMP_CHECK"
                  /\ SeriesUnstable(full'.temperatureHistory)
               \/ /\ full.currentState = "QUICK_STATIC"
                  /\ Abs(full'.reading.temp - full'.initialTemp) > 100)
        => full'.currentState # "FAILED"]_vars

(***************************************************************************)
(* C31: quick engine, between public operations: calibData.isValid holds   *)
(* only in QUICK_COMPLETE; in IDLE, in every sampling or waiting phase and *)
(* in FAILED correctSensorData() returns its arguments, marked not valid.  *)
(***************************************************************************)
PassThrough(raw) ==
    CorrectSensorData(Engine, raw.accel, raw.gyro).corrected.result
        = [accel |-> raw.accel, gyro |-> raw.gyro, isValid |-> FALSE]

C31_ValidOnlyWhenComplete ==
    /\ calibData.isValid => currentState = "QUICK_COMPLETE"
    /\ currentState \in {"IDLE", "FAILED"} \cup Phases
           => \A raw \in RawInputs : PassThrough(raw)

\* a run restarted after a completed, valid one
C31_Witness ==
    /\ currentState = "QUICK_STATIC_FLAT"
    /\ lastOp = "start"
    /\ sideAccelMean # ZeroVector
    /\ ~ScaleOutOfRange(calibData.accelScale)
    /\ ~calibData.isValid

(***************************************************************************)
(* C32: quick engine: whenever calibData.isValid holds, the scale          *)
(* calibData.accelScale lies in MIN_SCALE_FACTOR..MAX_SCALE_FACTOR.        *)
(***************************************************************************)
C32_ValidScaleInRange ==
    calibData.isValid
        => (MIN_SCALE_FACTOR <= calibData.accelScale
               /\ calibData.accelScale <= MAX_SCALE_FACTOR)

\* a valid result whose scale was computed from windows that were not exact
C32_Witness ==
    /\ calibData.isValid
    /\ calibData.accelScale # Milli
    /\ currentState = "QUICK_COMPLETE"

(***************************************************************************)
(* C33: quick engine, between public operations: whenever a run is in      *)
(* progress in QUICK_STATIC_FLAT or QUICK_STATIC_SIDE both sample buffers  *)
(* are allocated, and no operation has used a buffer through a null        *)
(* pointer.                                                                *)
(***************************************************************************)
C33_SamplingHasBuffers ==
    /\ (calibrationInProgress
            /\ currentState \in {"QUICK_STATIC_FLAT", "QUICK_STATIC_SIDE"})
           => (accelSamples # << >> /\ gyroSamples # << >>)
    /\ ~nullDeref

\* processCalibration has just written a sample of the side window into the
\* buffers of the run in progress
C33_Witness ==
    /\ calibrationInProgress
    /\ currentState = "QUICK_STATIC_SIDE"
    /\ lastOp = "process"
    /\ stored = 1
    /\ accelSamples # << >> /\ gyroSamples # << >>

(***************************************************************************)
(* C35: main loop: an iteration of loop() that finds a run in progress     *)
(* calls processCalibration() exactly once and sends no sensor packet; an  *)
(* iteration sends packets only when no run is in progress, the device is  *)
(* connected and SENSOR_UPDATE_INTERVAL ms have passed since the last      *)
(* send, and then it sends one accelerometer and one gyroscope packet.     *)
(***************************************************************************)
LoopStep == mainLoop'.iteration # mainLoop.iteration
PacketKinds(packets) == [i \in 1..Len(packets) |-> packets[i].kind]
IntervalPassed ==
    mainLoop.lastSent = -1 \/ now - mainLoop.lastSent >= SENSOR_UPDATE_INTERVAL

C35_LoopProcessesOrSends ==
    [][LoopStep =>
          /\ calibrationInProgress
                 => (mainLoop'.processCalls = 1 /\ mainLoop'.packets = << >>)
          /\ mainLoop'.packets # << >>
                 => (/\ ~calibrationInProgress
                     /\ deviceConnected
                     /\ IntervalPassed
                     /\ PacketKinds(mainLoop'.packets) = <<"accel", "gyro">>)]_vars

\* packets were sent, a run was started, and an iteration a whole interval
\* after the send, with the app connected, has stored a sample and sent nothing
C35_Witness ==
    /\ lastOp = "process"
    /\ stored = 1
    /\ mainLoop.processCalls = 1
    /\ mainLoop.packets = << >>
    /\ deviceConnected
    /\ mainLoop.lastSent # -1
    /\ (now - LoopDelay) - mainLoop.lastSent >= SENSOR_UPDATE_INTERVAL

(***************************************************************************)
(* C34: with onWrite and loop() as two tasks whose steps interleave, no    *)
(* sampling handler stores a sample into a buffer that abortCalibration()  *)
(* has released or that startQuickCalibration() is replacing.              *)
(***************************************************************************)
StoreStep ==
    threads.loopPc \in {"storeAccel", "storeGyro"} /\ threads'.loopPc # threads.loopPc
StoreTarget == IF threads.loopPc = "storeAccel" THEN accelSamples ELSE gyroSamples
ReleasedByAbort == StoreTarget = NullBuffer
BeingReplaced == threads.writerPc \in {"allocAccel", "allocGyro"}

C34_NoStoreIntoReleasedBuffer ==
    [][StoreStep => (~ReleasedByAbort /\ ~BeingReplaced)]_vars

(***************************************************************************)
(* C36: full engine: a processCalibration() call in MOVEMENT_CHECK keeps   *)
(* the engine in MOVEMENT_CHECK while the rotation sequence is being       *)
(* performed; it enters FAILED only when the movement counter has exceeded *)
(* MOVEMENT_SAMPLES and COMPLETED only when the sequence has finished.     *)
(***************************************************************************)
RotationSequence ==
    <<"ROTATE_X", "CHECK_X", "ROTATE_Y", "CHECK_Y", "ROTATE_Z", "CHECK_Z">>
SequenceRunning == \E i \in 1..Len(RotationSequence) : full.moveState = RotationSequence[i]
MovementTimedOut == full.sampleCounter > MOVEMENT_SAMPLES
MovementStep == FullProcessStep /\ full.currentState = "MOVEMENT_CHECK"

C36_MovementCheckWaits ==
    [][MovementStep =>
          /\ full'.currentState \in {"MOVEMENT_CHECK", "FAILED", "COMPLETED"}
          /\ full'.currentState = "FAILED" => MovementTimedOut
          /\ full'.currentState = "COMPLETED" => ~SequenceRunning
          /\ (SequenceRunning /\ ~MovementTimedOut)
                 => full'.currentState = "MOVEMENT_CHECK"]_vars

(***************************************************************************)
(* C37: full engine: every run that enters MOVEMENT_CHECK finds the        *)
(* movement validation at ROTATE_X with sampleCounter 0, whatever an       *)
(* earlier run did during its movement validation.                         *)
(***************************************************************************)
EntersMovementCheck ==
    full.currentState # "MOVEMENT_CHECK" /\ full'.currentState = "MOVEMENT_CHECK"

C37_MovementStateFresh ==
    [][EntersMovementCheck
          => (full'.moveState = "ROTATE_X" /\ full'.sampleCounter = 0)]_vars

(***************************************************************************)
(* C38: full engine: processCalibration() leaves a position phase only     *)
(* with SAMPLES_PER_STATE samples collected in it and only for the next    *)
(* phase of POSITION_Z_UP, POSITION_Z_DOWN, POSITION_Y_UP, POSITION_Y_DOWN,*)
(* POSITION_X_UP, POSITION_X_DOWN, MOVEMENT_CHECK; a position phase and    *)
(* MOVEMENT_CHECK are entered only from the phase before; every record     *)
(* sent carries positionIndex = state - POSITION_Z_UP, within 0..5, in a   *)
(* position phase and 0 in any other state.  (abortCalibration() ends the  *)
(* run, in a position phase as anywhere.)                                  *)
(***************************************************************************)
PositionPath ==
    <<"BIAS_ESTIMATION", "POSITION_Z_UP", "POSITION_Z_DOWN", "POSITION_Y_UP",
      "POSITION_Y_DOWN", "POSITION_X_UP", "POSITION_X_DOWN", "MOVEMENT_CHECK">>
PathIndex(state) == CHOOSE i \in 1..Len(PositionPath) : PositionPath[i] = state
OnPath(state) == \E i \in 1..Len(PositionPath) : PositionPath[i] = state
InPositionPhase(state) == OnPath(state) /\ PathIndex(state) \in 2..7
ExpectedIndex(state) == IF InPositionPhase(state) THEN PathIndex(state) - 2 ELSE 0
StateChanges == full'.currentState # full.currentState

C38_PositionsInOrder ==
    [][/\ (FullProcessStep /\ InPositionPhase(full.currentState) /\ StateChanges)
             => (/\ full.sampleCount = SAMPLES_PER_STATE
                 /\ full'.currentState = PositionPath[PathIndex(full.currentState) + 1])
       /\ (StateChanges /\ OnPath(full'.currentState)
               /\ full'.currentState # "BIAS_ESTIMATION")
             => (/\ OnPath(full.currentState)
                 /\ PathIndex(full.currentState) = PathIndex(full'.currentState) - 1)
       /\ \A i \in 1..Len(full'.notified) :
              /\ full'.notified[i].positionIndex = ExpectedIndex(full'.notified[i].state)
              /\ full'.notified[i].positionIndex \in 0..5]_vars

\* the last position phase has just been left for MOVEMENT_CHECK
C38_Witness ==
    /\ full.currentState = "MOVEMENT_CHECK"
    /\ full.lastOp = "processCalibration"
    /\ full.notified # << >>
    /\ full.calibrationInProgress

====
